---- MODULE Spec2Model ----
(***************************************************************************)
(* Model of src/plc_simulator.py (class ESSPLCSimulator): the equipment    *)
(* table, the Modbus coils and holding registers it shares with clients,   *)
(* the command poller (monitor_commands), the 1 Hz tick                    *)
(* (simulate_sensor_values and the functions it calls) and the sensor      *)
(* alarm cycle.                                                            *)
(*                                                                         *)
(* Units.  Frequencies are kept in tenths of a hertz (45.5 Hz = 455), the  *)
(* unit of the target registers HR 5000+i.  Temperatures, pressure and     *)
(* the M/E load are kept in thousandths (24.0 C = 24000), and math.sin is  *)
(* a table of sin * 1000.  random.uniform(-a, a) is a choice among a    *)
(* few values of [-a, a] (HzNoise, NoiseLevels).                           *)
(*                                                                         *)
(* The specifications share the definitions:                               *)
(*   Spec        whole poller scans, whole ticks (equipment part) and      *)
(*               client writes, interleaved;                               *)
(*   SpecConc    the poller and the tick as two threads that interleave    *)
(*               at every access to the shared equipment table, coils and  *)
(*               registers;                                                *)
(*   SpecSensor  the sensor thread alone: whole ticks, one after the       *)
(*               other, with the alarm cycle and the sensor registers.     *)
(*   SpecVfd     whole ticks with the VFD anomaly cycle and the            *)
(*               motor_thermal word, poller scans and a client that stops  *)
(*               every actuator;                                           *)
(*   SpecSlew    Spec with a client that writes target frequencies;        *)
(*   SpecAlarm   whole ticks with the alarm detection and the recent       *)
(*               alarm ring;                                               *)
(*   SpecDetect  the first ticks of SpecAlarm with a client that writes    *)
(*               the alarm thresholds;                                     *)
(*   SpecRing    SpecDetect with a client that writes all the thresholds   *)
(*               in one request;                                           *)
(*   SpecCold    the ticks of SpecAlarm and poller scans, with no client;  *)
(*   SpecTele    ticks with all the words of the telemetry blocks, poller  *)
(*               scans and client commands, from boot or after HourAge     *)
(*               ticks;                                                    *)
(*   SpecStart   Spec with a client that starts and stops SWP3;            *)
(*   SpecVfdBwd  SpecVfd with a client that stops every actuator and       *)
(*               reverses FAN1;                                            *)
(*   SpecQuiet   the ticks of SpecCold over two selections of the alarm    *)
(*               cycle, poller scans and a client that starts and stops    *)
(*               the sea water pumps;                                      *)
(*   SpecPrecedence  Spec with a client that writes the whole command      *)
(*               block of coils in one request.                            *)
(* FairSpec and FairSlew are Spec and SpecSlew with the background         *)
(* threads scheduled fairly.                                               *)
(***************************************************************************)
EXTENDS Integers, Sequences, FiniteSets, TLC

VARIABLES
    eq,                      \* self.equipment, indexed 0..9 as equipment_names
    co,                      \* coils of self.store (function code 1)
    hr,                      \* holding registers of self.store (function code 3)
    simulation_tick,         \* self.simulation_tick
    alarm_scenario_counter,  \* self.alarm_scenario_counter
    alarm_active,            \* self.alarm_active
    alarm_duration,          \* self.alarm_duration
    current_alarm_sensors,   \* self.current_alarm_sensors
    alarm_cycle_number,      \* self.alarm_cycle_number
    me_load,                 \* self.me_load (thousandths of a percent)
    vfd_anomaly_counter,     \* self.vfd_anomaly_counter
    vfd_anomaly_active,      \* self.vfd_anomaly_active
    vfd_anomaly_duration,    \* self.vfd_anomaly_duration
    current_vfd_anomalies,   \* self.current_vfd_anomalies, as a set of [vfd, type]
    vfd_anomaly_cycle_number,\* self.vfd_anomaly_cycle_number
    recent_alarms,           \* self.recent_alarms
    pl,                      \* command thread: position and locals (SpecConc)
    tk,                      \* sensor thread: position and locals (SpecConc)
    writes,                  \* number of client writes so far
    lastw,                   \* last value a client wrote to each mode coil (-1: none)
    hist,                    \* the last whole handler that ran and the state it started from
    obs,                     \* observations of the sensor alarm cycle, tick by tick
    vobs,                    \* observations of the VFD anomaly cycle, tick by tick
    aobs,                    \* observations of the alarm detection, tick by tick
    tele,                    \* holding registers 160..359 but the motor_thermal
                             \* words (which are in hr): tele[i][w] is HR 160+20i+w
    tobs                     \* ticks taken by the telemetry slice

vfdVars == <<vfd_anomaly_counter, vfd_anomaly_active, vfd_anomaly_duration,
             current_vfd_anomalies, vfd_anomaly_cycle_number, vobs>>

ringVars == <<recent_alarms, aobs>>

teleVars == <<tele, tobs>>

vars == <<eq, co, hr, simulation_tick, alarm_scenario_counter, alarm_active,
          alarm_duration, current_alarm_sensors, alarm_cycle_number, me_load,
          pl, tk, writes, lastw, hist, obs, vfdVars, ringVars, teleVars>>

schedVars == <<simulation_tick, alarm_scenario_counter, alarm_active,
               alarm_duration, current_alarm_sensors, alarm_cycle_number,
               me_load, obs, vfdVars, ringVars, teleVars>>

-----------------------------------------------------------------------------
(* Bounds of the model *)

\* client writes explored in Spec
MaxWrites == 2

\* client writes explored in SpecConc
MaxConcWrites == 1

\* ticks explored in SpecSensor
MaxTick == 185

\* client writes explored in SpecSlew
MaxSlewWrites == 3

\* the values a client writes to the target register in SpecSlew: no
\* setpoint, a setpoint within the range, and setpoints just above 60.0 Hz
SlewTargets == {0, 470, 605, 610, 620}

\* client writes explored in SpecVfdBwd
MaxBwdWrites == 1

\* ticks explored in SpecQuiet: the first firing, and the fall of the load
\* below 20 % after it
MaxQuietTick == 115

\* client requests explored in SpecQuiet
MaxQuietWrites == 1

\* client requests explored in SpecPrecedence
MaxBlockWrites == 2

\* client writes explored in SpecStart
MaxStartWrites == 3

\* ticks explored in SpecTele, and the ticks already run when it starts
MaxTeleTick == 3
HourAge == 65534

\* ticks explored in SpecCold
MaxColdTick == 106

\* ticks explored in SpecAlarm
MaxAlarmTick == 181

\* ticks and client writes explored in SpecDetect
MaxDetectTick == 3
MaxDetectWrites == 2

\* ticks explored in SpecVfd
MaxVfdTick == 121

\* client requests explored in SpecVfd
MaxVfdWrites == 1

\* the actuators a client addresses in Spec: SWP1 and FAN1, both running
\* at boot
ClientEquip == {0, 6}

\* the values a client writes to a target register HR 5000+i
TargetRaws == {0, 470, 65535}

\* random.uniform(-2, 2) of a start command, in tenths of a hertz
HzNoise == {-20, 0, 20}

\* random.uniform(-a, a) of a sensor reading, as a multiple of a: the two
\* ends of the interval
NoiseLevels == {-1, 1}

-----------------------------------------------------------------------------
(* Address map *)

Equipment == 0..9
Pumps == 0..5
Fans == 6..9

StartCoil(i) == 64064 + (i * 2)
StopCoil(i) == 64064 + (i * 2) + 1
BwdCoil(i) == 64084 + (i - 6)
AutoCoil(i) == 64160 + i
VfdCoil(i) == 64320 + i

MomentaryCoils == {StartCoil(i) : i \in Equipment} \cup {StopCoil(i) : i \in Equipment}
                    \cup {BwdCoil(i) : i \in Fans}
ModeCoils == {AutoCoil(i) : i \in Equipment} \cup {VfdCoil(i) : i \in Equipment}
CoilAddrs == MomentaryCoils \cup ModeCoils

TargetReg(i) == 5000 + i
\* word 4 (motor_thermal) of the 20-register VFD block of actuator i
MotorThermalReg(i) == 160 + (i * 20) + 4
ScoreRegs == 5200..5209
PowerReg(i) == 5620 + i
ThresholdRegs == 7000..7009
AlarmStatusRegs == 7100..7103
RecentAlarmRegs == 7200..7279
HRAddrs == (10..19) \cup {4000, 4001} \cup {TargetReg(i) : i \in Equipment}
             \cup {MotorThermalReg(i) : i \in Equipment}
             \cup ScoreRegs \cup {PowerReg(i) : i \in Equipment}
             \cup ThresholdRegs \cup AlarmStatusRegs \cup RecentAlarmRegs

-----------------------------------------------------------------------------
(* Arithmetic helpers *)

Abs(x) == IF x < 0 THEN -x ELSE x
Min(a, b) == IF a < b THEN a ELSE b
Max(a, b) == IF a > b THEN a ELSE b
Bit(b, k) == IF b THEN 2 ^ k ELSE 0
Last(s) == s[Len(s)]

-----------------------------------------------------------------------------
(* State after __init__ *)

BootHz(i) ==
    CASE i = 0 -> 455 [] i = 1 -> 462 [] i = 3 -> 481 [] i = 4 -> 478
      [] i = 6 -> 500 [] i = 7 -> 495 [] OTHER -> 0

\* A pump has no running_fwd / running_bwd key and a fan no running / ess_on
\* key: eq.get(key, False) reads FALSE, which is what the absent fields hold here.
EquipmentInit ==
    [i \in Equipment |->
        [running     |-> i \in {0, 1, 3, 4},
         ess_on      |-> i \in {0, 1, 3, 4},
         running_fwd |-> i \in {6, 7},
         running_bwd |-> FALSE,
         abnormal    |-> FALSE,
         hz          |-> BootHz(i),
         auto_mode   |-> TRUE,
         vfd_mode    |-> TRUE]]

CoilsInit == [a \in CoilAddrs |-> 0]

\* default_thresholds, written to HR 7000..7009
DefaultThresholds == <<300, 500, 500, 500, 400, 500, 400, 150, 400, 850>>

HoldingInit ==
    [a \in HRAddrs |->
        IF a \in ThresholdRegs THEN DefaultThresholds[a - 6999]
        ELSE IF a \in ScoreRegs THEN 100
        ELSE 0]

IsRunning(e) == e.running \/ e.running_fwd \/ e.running_bwd

-----------------------------------------------------------------------------
(* monitor_commands: one scan of the command poller *)

\* a faulty pump handler: START is obeyed without testing `running`, so a
\* START on a running pump draws a new frequency
PumpCommandRestart(e, sv, pv, n) ==
    LET e1 == IF sv # 0
              THEN [e EXCEPT !.running = TRUE, !.ess_on = TRUE, !.hz = 450 + n]
              ELSE e
    IN  IF pv # 0 /\ e1.running
        THEN [e1 EXCEPT !.running = FALSE, !.ess_on = FALSE, !.hz = 0]
        ELSE e1

\* a faulty pump handler: STOP is handled before START
PumpCommandStopFirst(e, sv, pv, n) ==
    LET e1 == IF pv # 0 /\ e.running
              THEN [e EXCEPT !.running = FALSE, !.ess_on = FALSE, !.hz = 0]
              ELSE e
    IN  IF sv # 0 /\ ~e1.running
        THEN [e1 EXCEPT !.running = TRUE, !.ess_on = TRUE, !.hz = 450 + n]
        ELSE e1

\* START and STOP of a pump, in the order of the code: sv, pv are the
\* values read from the START and STOP coils, n the random.uniform draw
PumpCommand(e, sv, pv, n) ==
    LET e1 == IF sv # 0 /\ ~e.running
              THEN [e EXCEPT !.running = TRUE, !.ess_on = TRUE, !.hz = 450 + n]
              ELSE e
    IN  IF pv # 0 /\ e1.running
        THEN [e1 EXCEPT !.running = FALSE, !.ess_on = FALSE, !.hz = 0]
        ELSE e1

\* a faulty fan handler: BWD START sets running_bwd and leaves running_fwd
FanCommandKeepFwd(e, sv, pv, bv, n1, n2) ==
    LET e1 == IF sv # 0 /\ ~e.running_fwd
              THEN [e EXCEPT !.running_fwd = TRUE, !.running_bwd = FALSE, !.hz = 450 + n1]
              ELSE e
        e2 == IF pv # 0 /\ (e1.running_fwd \/ e1.running_bwd)
              THEN [e1 EXCEPT !.running_fwd = FALSE, !.running_bwd = FALSE, !.hz = 0]
              ELSE e1
    IN  IF bv # 0 /\ ~e2.running_bwd
        THEN [e2 EXCEPT !.running_bwd = TRUE, !.hz = 450 + n2]
        ELSE e2

\* FWD START, STOP and BWD START of a fan, in the order of the code
FanCommand(e, sv, pv, bv, n1, n2) ==
    LET e1 == IF sv # 0 /\ ~e.running_fwd
              THEN [e EXCEPT !.running_fwd = TRUE, !.running_bwd = FALSE, !.hz = 450 + n1]
              ELSE e
        e2 == IF pv # 0 /\ (e1.running_fwd \/ e1.running_bwd)
              THEN [e1 EXCEPT !.running_fwd = FALSE, !.running_bwd = FALSE, !.hz = 0]
              ELSE e1
    IN  IF bv # 0 /\ ~e2.running_bwd
        THEN [e2 EXCEPT !.running_fwd = FALSE, !.running_bwd = TRUE, !.hz = 450 + n2]
        ELSE e2

\* AUTO/MANUAL and VFD/BYPASS: the coil's value is adopted
ModeCommand(e, av, vv) ==
    [e EXCEPT !.auto_mode = (av # 0), !.vfd_mode = (vv # 0)]

\* the equipment entry of actuator i after one scan that reads coils c
MonitorEquipment(i, e, c, n1, n2) ==
    ModeCommand(
        IF i < 6
        THEN PumpCommand(e, c[StartCoil(i)], c[StopCoil(i)], n1)
        ELSE FanCommand(e, c[StartCoil(i)], c[StopCoil(i)], c[BwdCoil(i)], n1, n2),
        c[AutoCoil(i)], c[VfdCoil(i)])

\* a faulty scan: the START coils (even offsets of the command block) are
\* left set
MonitorCoilsKeepStart(c) ==
    [a \in CoilAddrs |->
        IF a \in MomentaryCoils /\ c[a] # 0 /\ a \notin {StartCoil(i) : i \in Equipment}
        THEN 0 ELSE c[a]]

\* the coils after one scan: every START, STOP and BWD coil read as set is
\* reset, whether or not the command took effect; no other coil is written
MonitorCoils(c) ==
    [a \in CoilAddrs |-> IF a \in MomentaryCoils /\ c[a] # 0 THEN 0 ELSE c[a]]

-----------------------------------------------------------------------------
(* update_equipment_status: HR 4000, 4001 *)

Word4000(q) ==
      Bit(q[0].running, 0) + Bit(q[0].ess_on, 1) + Bit(q[0].abnormal, 2)
    + Bit(q[1].running, 3) + Bit(q[1].ess_on, 4) + Bit(q[1].abnormal, 5)
    + Bit(q[2].running, 6) + Bit(q[2].ess_on, 7) + Bit(q[2].abnormal, 8)
    + Bit(q[3].running, 9) + Bit(q[3].ess_on, 10) + Bit(q[3].abnormal, 11)
    + Bit(q[4].running, 12) + Bit(q[4].ess_on, 13) + Bit(q[4].abnormal, 14)
    + Bit(q[5].running, 15)

\* a faulty packing: the two direction bits of every fan exchanged
Word4001Swapped(q) ==
      Bit(q[5].ess_on, 0) + Bit(q[5].abnormal, 1)
    + Bit(q[6].running_bwd, 2) + Bit(q[6].running_fwd, 3) + Bit(q[6].abnormal, 4)
    + Bit(q[7].running_bwd, 5) + Bit(q[7].running_fwd, 6) + Bit(q[7].abnormal, 7)
    + Bit(q[8].running_bwd, 8) + Bit(q[8].running_fwd, 9) + Bit(q[8].abnormal, 10)
    + Bit(q[9].running_bwd, 11) + Bit(q[9].running_fwd, 12) + Bit(q[9].abnormal, 13)

Word4001(q) ==
      Bit(q[5].ess_on, 0) + Bit(q[5].abnormal, 1)
    + Bit(q[6].running_fwd, 2) + Bit(q[6].running_bwd, 3) + Bit(q[6].abnormal, 4)
    + Bit(q[7].running_fwd, 5) + Bit(q[7].running_bwd, 6) + Bit(q[7].abnormal, 7)
    + Bit(q[8].running_fwd, 8) + Bit(q[8].running_bwd, 9) + Bit(q[8].abnormal, 10)
    + Bit(q[9].running_fwd, 11) + Bit(q[9].running_bwd, 12) + Bit(q[9].abnormal, 13)

StatusRegs(h, q) == [h EXCEPT ![4000] = Word4000(q), ![4001] = Word4001(q)]

-----------------------------------------------------------------------------
(* update_vfd_data: setpoint slew and mode coil mirror *)

\* a faulty slew: a target register of 0 is a target of 0 Hz
SlewStepToZero(f, raw) ==
    IF Abs(raw - f) > 5
    THEN IF raw > f
         THEN Min(Min(f + 5, raw), 600)
         ELSE Max(Max(f - 5, raw), 0)
    ELSE raw

\* a faulty slew: always a step of 0.5 Hz, never the snap to the target
SlewStepNoSnap(f, raw) ==
    IF raw > 0
    THEN IF raw > f
         THEN Min(f + 5, 600)
         ELSE Max(f - 5, 0)
    ELSE f

\* the commanded frequency after the slew towards target register value raw,
\* for an actuator seen running in auto and VFD mode with frequency f
SlewStep(f, raw) ==
    IF raw > 0
    THEN IF Abs(raw - f) > 5
         THEN IF raw > f
              THEN Min(Min(f + 5, raw), 600)
              ELSE Max(Max(f - 5, raw), 0)
         ELSE raw
    ELSE f

\* vfd_command_freq as written back to eq['hz']
\* a faulty emitter: the slew is applied to every running actuator,
\* whatever its modes
CommandFreqAnyMode(auto, vfd, running, f, raw) ==
    IF running THEN SlewStep(f, raw) ELSE f

CommandFreq(auto, vfd, running, f, raw) ==
    IF auto /\ vfd /\ running THEN SlewStep(f, raw) ELSE f

VfdEquipment(q, h) ==
    [i \in Equipment |->
        [q[i] EXCEPT !.hz = CommandFreq(q[i].auto_mode, q[i].vfd_mode,
                                        IsRunning(q[i]), q[i].hz, h[TargetReg(i)])]]

\* the trailing loop: auto_mode and vfd_mode written to their coils
MirrorCoils(c, q) ==
    [a \in CoilAddrs |->
        IF \E i \in Equipment : a = AutoCoil(i)
        THEN (IF q[a - 64160].auto_mode THEN 1 ELSE 0)
        ELSE IF \E i \in Equipment : a = VfdCoil(i)
        THEN (IF q[a - 64320].vfd_mode THEN 1 ELSE 0)
        ELSE c[a]]

-----------------------------------------------------------------------------
(* simulate_sensor_values: the sensor alarm cycle *)

AlarmNames == {"TX1", "TX2", "TX3", "TX4", "TX5", "TX6", "TX7",
               "PX1_LOW", "PX1_HIGH", "PU1"}

\* self.alarm_sensors[k]['alarm_value']
AlarmValue(k) ==
    CASE k = "TX1" -> 32000 [] k = "TX2" -> 52000 [] k = "TX3" -> 52000
      [] k = "TX4" -> 52000 [] k = "TX5" -> 42000 [] k = "TX6" -> 52000
      [] k = "TX7" -> 42000 [] k = "PX1_LOW" -> 1000 [] k = "PX1_HIGH" -> 4200
      [] k = "PU1" -> 90000

\* random.sample(all_sensors, 2): any two distinct catalog entries (the
\* order of the two is never read)
AlarmSamples == {S \in SUBSET AlarmNames : Cardinality(S) = 2}

\* a faulty cycle: the selection is not cleared when the firing ends
AlarmCycleKeepSelection(c, a, d, s, n, pick) ==
    LET c1 == c + 1
        start == ~a /\ c1 >= 90
        a1 == IF start THEN TRUE ELSE a
        d1 == IF start THEN 0 ELSE d
        c2 == IF start THEN 0 ELSE c1
        n1 == IF start THEN n + 1 ELSE n
        s1 == IF start THEN pick ELSE s
        d2 == IF a1 THEN d1 + 1 ELSE d1
        stop == a1 /\ d2 >= 15
    IN  [counter  |-> c2,
         active   |-> IF stop THEN FALSE ELSE a1,
         duration |-> IF stop THEN 0 ELSE d2,
         sensors  |-> s1,
         cycle    |-> n1,
         started  |-> start]

\* The cycle after the two if statements at the head of the tick, from the
\* values c (counter), a (active), d (duration), s (selection), n (cycle
\* number) before it; pick is the sample drawn if the cycle starts.
AlarmCycle(c, a, d, s, n, pick) ==
    LET c1 == c + 1
        start == ~a /\ c1 >= 90
        a1 == IF start THEN TRUE ELSE a
        d1 == IF start THEN 0 ELSE d
        c2 == IF start THEN 0 ELSE c1
        n1 == IF start THEN n + 1 ELSE n
        s1 == IF start THEN pick ELSE s
        d2 == IF a1 THEN d1 + 1 ELSE d1
        stop == a1 /\ d2 >= 15
    IN  [counter  |-> c2,
         active   |-> IF stop THEN FALSE ELSE a1,
         duration |-> IF stop THEN 0 ELSE d2,
         sensors  |-> IF stop THEN {} ELSE s1,
         cycle    |-> n1,
         started  |-> start]

-----------------------------------------------------------------------------
(* simulate_sensor_values: sensor values and HR 10..19 *)

\* math.sin(2 * math.pi * t / 180) * 1000 for t = 0..179
SinTable ==
    << 0, 35, 70, 105, 139, 174, 208, 242, 276, 309, 342, 375,
       407, 438, 469, 500, 530, 559, 588, 616, 643, 669, 695, 719,
       743, 766, 788, 809, 829, 848, 866, 883, 899, 914, 927, 940,
       951, 961, 970, 978, 985, 990, 995, 998, 999, 1000, 999, 998,
       995, 990, 985, 978, 970, 961, 951, 940, 927, 914, 899, 883,
       866, 848, 829, 809, 788, 766, 743, 719, 695, 669, 643, 616,
       588, 559, 530, 500, 469, 438, 407, 375, 342, 309, 276, 242,
       208, 174, 139, 105, 70, 35, 0, -35, -70, -105, -139, -174,
       -208, -242, -276, -309, -342, -375, -407, -438, -469, -500, -530, -559,
       -588, -616, -643, -669, -695, -719, -743, -766, -788, -809, -829, -848,
       -866, -883, -899, -914, -927, -940, -951, -961, -970, -978, -985, -990,
       -995, -998, -999, -1000, -999, -998, -995, -990, -985, -978, -970, -961,
       -951, -940, -927, -914, -899, -883, -866, -848, -829, -809, -788, -766,
       -743, -719, -695, -669, -643, -616, -588, -559, -530, -500, -469, -438,
       -407, -375, -342, -309, -276, -242, -208, -174, -139, -105, -70, -35 >>

SinMilli(t) == SinTable[(t % 180) + 1]

\* mid + amplitude * sin(2 pi (tick + phase) / period), period 180 for
\* every cycle of the program
CycleValue(lo, hi, phase, tick) ==
    ((hi + lo) \div 2) + ((((hi - lo) \div 2) * SinMilli(tick + phase)) \div 1000)

\* get_cyclic_temp with self.temp_cycle
CyclicTemp(k, tick) ==
    CASE k = "TX4" -> CycleValue(43000, 47000, 0, tick)
      [] k = "TX5" -> CycleValue(33000, 37000, 60, tick)
      [] k = "TX6" -> CycleValue(38000, 48000, 0, tick)

Overriding(a, s, k) == a /\ k \in s

\* tx1..tx7 of one tick: a, s the cycle's active flag and selection, load
\* the previous tick's me_load, n the noise level of the tick's draws
Temperatures(a, s, load, tick, n) ==
    LET tx1 == IF Overriding(a, s, "TX1") THEN AlarmValue("TX1") + n * 500
               ELSE 24000 + n * 500
        tx2 == IF Overriding(a, s, "TX2") THEN AlarmValue("TX2") + n * 500
               ELSE Min(tx1 + ((8 * load) \div 60) + n * 500, 48500)
        tx3 == IF Overriding(a, s, "TX3") THEN AlarmValue("TX3") + n * 500
               ELSE Min(tx1 + ((6 * load) \div 60) + n * 500, 48500)
        tx4 == IF Overriding(a, s, "TX4") THEN AlarmValue("TX4") + n * 500
               ELSE CyclicTemp("TX4", tick) + n * 300
        tx5 == IF Overriding(a, s, "TX5") THEN AlarmValue("TX5") + n * 500
               ELSE CyclicTemp("TX5", tick) + n * 300
        tx6 == IF Overriding(a, s, "TX6") THEN AlarmValue("TX6") + n * 500
               ELSE CyclicTemp("TX6", tick) + n * 300
        tx7 == IF Overriding(a, s, "TX7") THEN AlarmValue("TX7") + n * 500
               ELSE 28000 + n * 1000
    IN  <<tx1, tx2, tx3, tx4, tx5, tx6, tx7>>

SwpRunningCount(q) == Cardinality({p \in {0, 1, 2} : q[p].running})

\* a faulty px1: the normal value is not clamped to 1.5 .. 3.5 bar
PressureUnclamped(a, s, load, q, n) ==
    IF Overriding(a, s, "PX1_LOW") THEN AlarmValue("PX1_LOW") + n * 50
    ELSE IF Overriding(a, s, "PX1_HIGH") THEN AlarmValue("PX1_HIGH") + n * 50
    ELSE 1500 + SwpRunningCount(q) * 500 + ((3 * load) \div 600) + n * 100

\* px1 of one tick
Pressure(a, s, load, q, n) ==
    IF Overriding(a, s, "PX1_LOW") THEN AlarmValue("PX1_LOW") + n * 50
    ELSE IF Overriding(a, s, "PX1_HIGH") THEN AlarmValue("PX1_HIGH") + n * 50
    ELSE Max(1500, Min(3500,
             1500 + SwpRunningCount(q) * 500 + ((3 * load) \div 600) + n * 100))

\* self.me_load of one tick
MeLoad(a, s, tick, n) ==
    IF Overriding(a, s, "PU1") THEN AlarmValue("PU1") + n * 1000
    ELSE CycleValue(15000, 45000, 0, tick)

\* int(x): truncation towards zero
Trunc(num, den) == IF num >= 0 THEN num \div den ELSE -((-num) \div den)

temperature_to_raw(t) == Trunc(t, 100)
pressure_kgcm2_to_raw(p) == Trunc(p * 4608, 1000)
\* p * 276.48, as p * 3456 / 12500 to stay within TLC's integers
percentage_to_raw(p) == Trunc(p * 3456, 12500)

\* HR 10..16, 17 and 19 as the tick writes them
SensorRegs(h, tx, px, load) ==
    [a \in HRAddrs |->
        IF a \in 10..16 THEN temperature_to_raw(tx[a - 9])
        ELSE IF a = 17 THEN pressure_kgcm2_to_raw(px)
        ELSE IF a = 19 THEN percentage_to_raw(load)
        ELSE h[a]]

\* a reading is in the band only its alarm value can produce
InAlarmBand(h, k) ==
    CASE k = "TX1" -> h[10] >= 315
      [] k = "TX2" -> h[11] >= 515
      [] k = "TX3" -> h[12] >= 515
      [] k = "TX4" -> h[13] >= 515
      [] k = "TX5" -> h[14] >= 415
      [] k = "TX6" -> h[15] >= 515
      [] k = "TX7" -> h[16] >= 415
      [] k = "PX1_LOW" -> h[17] <= pressure_kgcm2_to_raw(1050)
      [] k = "PX1_HIGH" -> h[17] >= pressure_kgcm2_to_raw(4150)
      [] k = "PU1" -> h[19] >= percentage_to_raw(89000)

AnyOverridden(h) == \E k \in AlarmNames : InAlarmBand(h, k)

-----------------------------------------------------------------------------
(* simulate_sensor_values: the VFD anomaly cycle, and the motor_thermal    *)
(* word of the telemetry of update_vfd_data                                *)

AnomalyTypes == {"motor_overheat", "inverter_overheat", "current_imbalance",
                 "overcurrent", "high_load", "dc_voltage_abnormal"}

\* random.choice(anomaly_types): the types drawn in the model
TypeDraws == {"dc_voltage_abnormal"}

\* self.vfd_anomaly_types[t]['motor_thermal']
MotorThermalRange(t) ==
    CASE t = "motor_overheat" -> <<95, 110>>
      [] t = "inverter_overheat" -> <<82, 92>>
      [] t = "current_imbalance" -> <<83, 93>>
      [] t = "overcurrent" -> <<98, 115>>
      [] t = "high_load" -> <<85, 98>>
      [] t = "dc_voltage_abnormal" -> <<82, 92>>

\* running_vfds: a fan running backward is not in the list
RunningVfds(q) == {i \in Equipment : q[i].running \/ q[i].running_fwd}

\* random.sample(running_vfds, randint(1, min(2, len))) with a type drawn
\* for each selected actuator
VfdSamples(run) ==
    {S \in SUBSET [vfd : run, type : TypeDraws] :
        /\ Cardinality(S) \in 1..Min(2, Cardinality(run))
        /\ \A x \in S, y \in S : x.vfd = y.vfd => x = y}

\* The cycle after the block `if self.vfd_anomaly_enabled:` of one tick,
\* from the values c (counter), a (active), d (duration), s (anomalies), n
\* (cycle number) before it and the equipment table q; pick is the sample
\* drawn if the cycle starts with an actuator running.
VfdAnomalyCycle(c, a, d, s, n, q, pick) ==
    LET c1 == c + 1
        start == ~a /\ c1 >= 60
        a1 == IF start THEN TRUE ELSE a
        d1 == IF start THEN 0 ELSE d
        c2 == IF start THEN 0 ELSE c1
        n1 == IF start THEN n + 1 ELSE n
        s1 == IF start /\ RunningVfds(q) # {} THEN pick ELSE s
        d2 == IF a1 THEN d1 + 1 ELSE d1
        stop == a1 /\ d2 >= 60
    IN  [counter   |-> c2,
         active    |-> IF stop THEN FALSE ELSE a1,
         duration  |-> IF stop THEN 0 ELSE d2,
         anomalies |-> IF stop THEN {} ELSE s1,
         cycle     |-> n1,
         started   |-> start]

\* current_anomaly of actuator i: the entries of the list that name it
CurrentAnomaly(a, s, i) == IF a THEN {x \in s : x.vfd = i} ELSE {}

\* motor_thermal of actuator i as written to its block: n picks the end of
\* the interval that random.randint draws from
MotorThermal(e, anomaly, n) ==
    IF IsRunning(e)
    THEN IF anomaly # {}
         THEN LET r == MotorThermalRange((CHOOSE x \in anomaly : TRUE).type)
              IN  IF n < 0 THEN r[1] ELSE r[2]
         ELSE IF n < 0 THEN 50 ELSE 75
    ELSE 0

VfdTelemetry(h, q, a, s, n) ==
    [r \in HRAddrs |->
        IF \E i \in Equipment : r = MotorThermalReg(i)
        THEN LET i == (r - 164) \div 20
             IN  MotorThermal(q[i], CurrentAnomaly(a, s, i), n)
        ELSE h[r]]

\* the words of a block kept in tele
TeleWords == (0..19) \ {4}

\* rated_currents[eq_name]
RatedCurrent(i) == IF i < 3 THEN 300 ELSE IF i < 6 THEN 370 ELSE 70

\* a faulty counter: the low word wraps with no carry into the high word
CounterWordsNoCarry(lo, hi, running) ==
    IF running THEN <<(lo + 1) % 65536, hi>> ELSE <<lo, hi>>

\* the two words of a 32-bit counter after the tick: the words lo, hi are
\* read, joined ((hi << 16) | lo), 1 is added if running, and the sum is
\* split again (& 0xFFFF, (>> 16) & 0xFFFF)
CounterWords(lo, hi, running) ==
    IF running
    THEN <<(lo + 1) % 65536, (hi + (IF lo = 65535 THEN 1 ELSE 0)) % 65536>>
    ELSE <<lo, hi>>

\* num_starts: the stored word, or a draw of random.randint(100, 500) if
\* the stored word is 0
NumStarts(old, n) == IF old = 0 THEN (IF n < 0 THEN 100 ELSE 500) ELSE old

\* vfd_data of actuator i but motor_thermal, for an actuator with no
\* anomaly: e its equipment entry as read at the head of the loop body, f
\* the commanded frequency after the slew, old the words of the block
\* before the tick, power the register HR 5620+i, n the end of the interval
\* that each random draw of the tick takes
VfdBlock(i, e, f, old, power, n) ==
    LET run == IsRunning(e)
        actual == IF run THEN Max(0, Min(600, f + (3 * n))) ELSE 0
        current == IF n < 0 THEN RatedCurrent(i) * 7
                   ELSE (RatedCurrent(i) * 85) \div 10
        phase == ((current * 1000) \div 1732) + (20 * n)
        kwh == CounterWords(old[9], old[10], run)
        hrs == CounterWords(old[18], old[19], run)
    IN  [w \in TeleWords |->
            CASE w = 0 -> actual
              [] w = 1 -> power \div 10
              [] w = 2 -> power \div 10
              [] w = 3 -> IF run THEN current ELSE 0
              [] w = 5 -> IF run THEN (IF n < 0 THEN 40 ELSE 55) ELSE 25
              [] w = 6 -> IF run THEN ((2 * actual) \div 10) + (5 * n) ELSE 0
              [] w = 7 -> IF run THEN (IF n < 0 THEN 45 ELSE 70) ELSE 0
              [] w = 8 -> IF run THEN (IF n < 0 THEN 35 ELSE 50) ELSE 25
              [] w = 9 -> kwh[1]
              [] w = 10 -> kwh[2]
              [] w = 11 -> NumStarts(old[11], n)
              [] w = 12 -> 0
              [] w \in {13, 14, 15} -> IF run THEN phase ELSE 0
              [] w = 16 -> 0
              [] w = 17 -> IF run THEN (IF n < 0 THEN 540 ELSE 560) ELSE 0
              [] w = 18 -> hrs[1]
              [] w = 19 -> hrs[2]]

\* word w of the block of actuator i
BlockWord(h, t, i, w) == IF w = 4 THEN h[MotorThermalReg(i)] ELSE t[i][w]

\* some block carries a motor_thermal no normal draw produces
AnomalyOverridden(h) == \E i \in Equipment : h[MotorThermalReg(i)] > 75

-----------------------------------------------------------------------------
(* check_alarms, add_recent_alarm, write_recent_alarms_to_registers *)

\* int(time.time()) at construction, and at tick t (one tick a second)
BootTime == 1700000000
Now(t) == BootTime + t

\* a faulty comparison: a reading equal to its threshold is an alarm
TempAlarmInclusive(h, i) == h[10 + i] >= h[7000 + i]

\* sensor_raw > threshold_raw for TX(i+1)
TempAlarm(h, i) == h[10 + i] > h[7000 + i]

\* px1_bar < thresholds[7] / 100.0 and px1_bar > thresholds[8] / 100.0 with
\* px1_bar = px1_raw / 4608.0, as comparisons of integers (the float
\* comparison agrees with it for all register values)
PressureLowAlarm(h) == h[17] * 100 < h[7007] * 4608
PressureHighAlarm(h) == h[17] * 100 > h[7008] * 4608

\* pu1_raw / 276.48 > thresholds[9] / 10.0, likewise
LoadAlarm(h) == h[19] * 1000 > h[7009] * 27648

\* int(px1_bar * 100)
PressureCenti(raw) == (raw * 100) \div 4608

\* int(pu1_percent * 10): the float product is just below the integer for
\* four register values
LoadTenths(raw) ==
    IF raw \in {17280, 31104, 34560, 62208}
    THEN ((raw * 1000) \div 27648) - 1
    ELSE (raw * 1000) \div 27648

\* the calls of add_recent_alarm made by check_alarms, in order
SignalledAlarms(h) ==
    LET T(i) == IF TempAlarm(h, i)
                THEN <<[code |-> i + 1, type |-> 1, actual |-> h[10 + i],
                        threshold |-> h[7000 + i]]>>
                ELSE << >>
        lo == IF PressureLowAlarm(h)
              THEN <<[code |-> 10, type |-> 2, actual |-> PressureCenti(h[17]),
                      threshold |-> h[7007]]>>
              ELSE << >>
        hi == IF PressureHighAlarm(h)
              THEN <<[code |-> 10, type |-> 1, actual |-> PressureCenti(h[17]),
                      threshold |-> h[7008]]>>
              ELSE << >>
        pu == IF LoadAlarm(h)
              THEN <<[code |-> 11, type |-> 1, actual |-> LoadTenths(h[19]),
                      threshold |-> h[7009]]>>
              ELSE << >>
    IN  T(0) \o T(1) \o T(2) \o T(3) \o T(4) \o T(5) \o T(6) \o lo \o hi \o pu

AlarmWord0(h) ==
      Bit(TempAlarm(h, 0), 0) + Bit(TempAlarm(h, 1), 1) + Bit(TempAlarm(h, 2), 2)
    + Bit(TempAlarm(h, 3), 3) + Bit(TempAlarm(h, 4), 4) + Bit(TempAlarm(h, 5), 5)
    + Bit(TempAlarm(h, 6), 6)

AlarmWord1(h) ==
    Bit(PressureLowAlarm(h), 0) + Bit(PressureHighAlarm(h), 1) + Bit(LoadAlarm(h), 2)

\* the duplicate test of add_recent_alarm
Duplicate(ring, x) ==
    \E k \in 1..Len(ring) :
        ring[k].code = x.code /\ ring[k].type = x.type /\ ring[k].status = 0

\* a faulty add_recent_alarm: no duplicate test
AddRecentNoDedup(ring, x, now) ==
    LET entry == [code |-> x.code, type |-> x.type, actual |-> x.actual,
                  threshold |-> x.threshold, timestamp |-> now, status |-> 0]
    IN  Append(IF Len(ring) >= 10 THEN Tail(ring) ELSE ring, entry)

\* a faulty add_recent_alarm: the duplicate test looks at the newest entry only
AddRecentDedupNewest(ring, x, now) ==
    IF ring # << >> /\ Duplicate(<<ring[Len(ring)]>>, x)
    THEN ring
    ELSE LET entry == [code |-> x.code, type |-> x.type, actual |-> x.actual,
                       threshold |-> x.threshold, timestamp |-> now, status |-> 0]
         IN  Append(IF Len(ring) >= 10 THEN Tail(ring) ELSE ring, entry)

\* self.recent_alarms after add_recent_alarm(x) at time now
AddRecent(ring, x, now) ==
    IF Duplicate(ring, x)
    THEN ring
    ELSE LET entry == [code |-> x.code, type |-> x.type, actual |-> x.actual,
                       threshold |-> x.threshold, timestamp |-> now, status |-> 0]
         IN  Append(IF Len(ring) >= 10 THEN Tail(ring) ELSE ring, entry)

RECURSIVE AddAll(_, _, _)
AddAll(ring, sig, now) ==
    IF sig = << >> THEN ring
    ELSE AddAll(AddRecent(ring, Head(sig), now), Tail(sig), now)

\* a faulty block: the two words of the timestamp exchanged
AlarmBlockLowFirst(x) ==
    <<x.code, x.type, x.actual, x.threshold,
      x.timestamp % 65536, (x.timestamp \div 65536) % 65536, x.status, 0>>

\* the eight registers of entry x
AlarmBlock(x) ==
    <<x.code, x.type, x.actual, x.threshold,
      (x.timestamp \div 65536) % 65536, x.timestamp % 65536, x.status, 0>>

\* write_recent_alarms_to_registers: the block of every entry of the ring;
\* no other register of 7200..7279 is written
WriteRecent(h, ring) ==
    [a \in HRAddrs |->
        IF a \in RecentAlarmRegs /\ (a - 7200) \div 8 < Len(ring)
        THEN AlarmBlock(ring[((a - 7200) \div 8) + 1])[((a - 7200) % 8) + 1]
        ELSE h[a]]

\* a faulty count: the acknowledged entries
UnackCountAcked(ring) == Cardinality({k \in 1..Len(ring) : ring[k].status = 1})

\* len([a for a in self.recent_alarms if a['status'] == 0])
UnackCount(ring) == Cardinality({k \in 1..Len(ring) : ring[k].status = 0})

\* a faulty flag: 1 only when an entry was appended to the ring
NewAlarmFlagOnAppend(h, ring, now) ==
    IF AddAll(ring, SignalledAlarms(h), now) # ring THEN 1 ELSE 0

\* new_alarm_flag: new_alarm_occurred is set beside every call of
\* add_recent_alarm, whatever the call does
NewAlarmFlag(h, ring, now) ==
    IF SignalledAlarms(h) # << >> THEN 1 ELSE 0

\* a faulty check_alarms: a TX1 alarm raises the TX1 threshold to the reading
CheckAlarmsAdapt(h, ring, now) ==
    LET sig == SignalledAlarms(h)
        r1 == AddAll(ring, sig, now)
        h1 == IF r1 # ring THEN WriteRecent(h, r1) ELSE h
    IN  [hr   |-> [h1 EXCEPT ![7000] = IF TempAlarm(h, 0) THEN h[10] ELSE h[7000],
                             ![7100] = AlarmWord0(h),
                             ![7101] = AlarmWord1(h),
                             ![7102] = UnackCount(r1),
                             ![7103] = NewAlarmFlag(h, ring, now)],
         ring |-> r1]

\* check_alarms on registers h and ring, at time now: the registers and the
\* ring after it.  The registers 7200.. are written by the calls of
\* add_recent_alarm that append an entry; each writes the whole ring, so
\* the last one decides.
CheckAlarms(h, ring, now) ==
    LET sig == SignalledAlarms(h)
        r1 == AddAll(ring, sig, now)
        h1 == IF r1 # ring THEN WriteRecent(h, r1) ELSE h
    IN  [hr   |-> [h1 EXCEPT ![7100] = AlarmWord0(h),
                             ![7101] = AlarmWord1(h),
                             ![7102] = UnackCount(r1),
                             ![7103] = NewAlarmFlag(h, ring, now)],
         ring |-> r1]

\* a faulty tick: the alarms are detected on the registers of the previous
\* tick, before the sensor registers are written
DetectBeforeEncode(h, tx, px, load, ring, now) ==
    LET c == CheckAlarms(h, ring, now)
    IN  [hr |-> SensorRegs(c.hr, tx, px, load), ring |-> c.ring]

\* the tick writes HR 10..19, then calls check_alarms
DetectAfterEncode(h, tx, px, load, ring, now) ==
    CheckAlarms(SensorRegs(h, tx, px, load), ring, now)

-----------------------------------------------------------------------------
(* Handlers as whole steps *)

ThreadIdle == [pc |-> "idle"]
NoHist == [act |-> "init", eq |-> EquipmentInit, co |-> CoilsInit]
NoObs == [run |-> 0, last |-> 0, starts |-> << >>]
NoVobs == [quiet |-> 0, gap |-> 60, fired |-> 0, retry |-> FALSE, cyc0 |-> 0]
NoAobs == [act |-> "init", len0 |-> 0, dup |-> FALSE, w0 |-> 0]
TeleInit == [i \in Equipment |-> [w \in TeleWords |-> 0]]
NoTobs == [ticks |-> 0]

Init ==
    /\ eq = EquipmentInit
    /\ co = CoilsInit
    /\ hr = HoldingInit
    /\ simulation_tick = 0
    /\ alarm_scenario_counter = 0
    /\ alarm_active = FALSE
    /\ alarm_duration = 0
    /\ current_alarm_sensors = {}
    /\ alarm_cycle_number = 0
    /\ me_load = 30000
    /\ tele = TeleInit
    /\ tobs = NoTobs
    /\ pl = ThreadIdle
    /\ tk = ThreadIdle
    /\ writes = 0
    /\ lastw = [a \in ModeCoils |-> -1]
    /\ hist = NoHist
    /\ obs = NoObs
    /\ vfd_anomaly_counter = 0
    /\ vfd_anomaly_active = FALSE
    /\ vfd_anomaly_duration = 0
    /\ current_vfd_anomalies = {}
    /\ vfd_anomaly_cycle_number = 0
    /\ vobs = NoVobs
    /\ recent_alarms = << >>
    /\ aobs = NoAobs

\* one iteration of the while loop of monitor_commands
PollScan ==
    /\ \E n1 \in HzNoise, n2 \in HzNoise :
          eq' = [i \in Equipment |-> MonitorEquipment(i, eq[i], co, n1, n2)]
    /\ co' = MonitorCoils(co)
    /\ hist' = [act |-> "poll", eq |-> eq, co |-> co]
    /\ UNCHANGED <<hr, schedVars, pl, tk, writes, lastw>>

\* the part of one tick that reads or writes the equipment table and the
\* coils: update_equipment_status, then update_vfd_data
TickEquip ==
    /\ hr' = StatusRegs(hr, eq)
    /\ eq' = VfdEquipment(eq, hr)
    /\ co' = MirrorCoils(co, eq')
    /\ hist' = [NoHist EXCEPT !.act = "tick"]
    /\ UNCHANGED <<schedVars, pl, tk, writes, lastw>>

\* Modbus function 5 on a START, STOP or BWD coil
ClientPush ==
    /\ writes < MaxWrites
    /\ \E i \in ClientEquip :
         \E a \in {StartCoil(i), StopCoil(i)} \cup (IF i \in Fans THEN {BwdCoil(i)} ELSE {}) :
            co' = [co EXCEPT ![a] = 1]
    /\ writes' = writes + 1
    /\ hist' = [NoHist EXCEPT !.act = "client"]
    /\ UNCHANGED <<eq, hr, schedVars, pl, tk, lastw>>

\* Modbus function 5 on an AUTO/MANUAL or VFD/BYPASS coil
ClientMode ==
    /\ writes < MaxWrites
    /\ \E i \in ClientEquip, v \in {0, 1} :
         \E a \in {AutoCoil(i), VfdCoil(i)} :
            /\ co' = [co EXCEPT ![a] = v]
            /\ lastw' = [lastw EXCEPT ![a] = v]
    /\ writes' = writes + 1
    /\ hist' = [NoHist EXCEPT !.act = "client"]
    /\ UNCHANGED <<eq, hr, schedVars, pl, tk>>

\* Modbus function 6 on a target register HR 5000+i
ClientTarget ==
    /\ writes < MaxWrites
    /\ \E i \in ClientEquip, v \in TargetRaws :
          hr' = [hr EXCEPT ![TargetReg(i)] = v]
    /\ writes' = writes + 1
    /\ hist' = [NoHist EXCEPT !.act = "client"]
    /\ UNCHANGED <<eq, co, schedVars, pl, tk, lastw>>

Next == PollScan \/ TickEquip \/ ClientPush \/ ClientMode \/ ClientTarget

Spec == Init /\ [][Next]_vars

\* One whole tick of simulate_sensor_values: the alarm cycle, the sensor
\* values and their registers, then update_equipment_status and
\* update_vfd_data.  obs records what the tick did to the readings.
Tick ==
    /\ simulation_tick < MaxTick
    /\ simulation_tick' = simulation_tick + 1
    /\ \E pick \in (IF ~alarm_active /\ alarm_scenario_counter + 1 >= 90
                    THEN AlarmSamples ELSE {{}}) :
         LET cyc == AlarmCycle(alarm_scenario_counter, alarm_active, alarm_duration,
                               current_alarm_sensors, alarm_cycle_number, pick)
         IN  /\ alarm_scenario_counter' = cyc.counter
             /\ alarm_active' = cyc.active
             /\ alarm_duration' = cyc.duration
             /\ current_alarm_sensors' = cyc.sensors
             /\ alarm_cycle_number' = cyc.cycle
             /\ \E nt \in NoiseLevels, np \in NoiseLevels, nl \in NoiseLevels :
                  LET tx == Temperatures(cyc.active, cyc.sensors, me_load,
                                         simulation_tick', nt)
                      px == Pressure(cyc.active, cyc.sensors, me_load, eq, np)
                      ld == MeLoad(cyc.active, cyc.sensors, simulation_tick', nl)
                      h1 == SensorRegs(hr, tx, px, ld)
                  IN  /\ me_load' = ld
                      /\ hr' = StatusRegs(h1, eq)
                      /\ obs' = [run    |-> IF AnyOverridden(h1) THEN obs.run + 1 ELSE 0,
                                 last   |-> IF AnyOverridden(h1) \/ obs.run = 0
                                            THEN obs.last ELSE obs.run,
                                 starts |-> IF cyc.started
                                            THEN Append(obs.starts, simulation_tick')
                                            ELSE obs.starts]
    /\ eq' = VfdEquipment(eq, hr)
    /\ co' = MirrorCoils(co, eq')
    /\ hist' = [NoHist EXCEPT !.act = "tick"]
    /\ UNCHANGED <<pl, tk, writes, lastw, vfdVars, ringVars, teleVars>>

SensorNext == Tick

SpecSensor == Init /\ [][SensorNext]_vars

\* One tick seen from the VFD anomaly cycle: the cycle, then
\* update_equipment_status and update_vfd_data with the motor_thermal word
\* of every block.  The sensor alarm cycle and the sensor registers of the
\* same tick are the subject of Tick.  vobs records what the tick did.
VfdTick ==
    /\ simulation_tick < MaxVfdTick
    /\ simulation_tick' = simulation_tick + 1
    /\ LET starting == ~vfd_anomaly_active /\ vfd_anomaly_counter + 1 >= 60
       IN
       \E pick \in (IF starting /\ RunningVfds(eq) # {}
                     THEN VfdSamples(RunningVfds(eq)) ELSE {{}}) :
         \E n \in NoiseLevels :
           LET cyc == VfdAnomalyCycle(vfd_anomaly_counter, vfd_anomaly_active,
                                      vfd_anomaly_duration, current_vfd_anomalies,
                                      vfd_anomaly_cycle_number, eq, pick)
               h1 == VfdTelemetry(StatusRegs(hr, eq), eq, cyc.active, cyc.anomalies, n)
           IN  /\ vfd_anomaly_counter' = cyc.counter
               /\ vfd_anomaly_active' = cyc.active
               /\ vfd_anomaly_duration' = cyc.duration
               /\ current_vfd_anomalies' = cyc.anomalies
               /\ vfd_anomaly_cycle_number' = cyc.cycle
               /\ hr' = h1
               /\ vobs' = [quiet |-> IF cyc.active \/ AnomalyOverridden(h1)
                                     THEN 0 ELSE vobs.quiet + 1,
                           gap   |-> IF cyc.started /\ vobs.fired >= 1
                                     THEN vobs.quiet ELSE vobs.gap,
                           fired |-> IF cyc.started THEN vobs.fired + 1 ELSE vobs.fired,
                           retry |-> starting /\ \A i \in Equipment : ~IsRunning(eq[i]),
                           cyc0  |-> vfd_anomaly_cycle_number]
    /\ eq' = VfdEquipment(eq, hr)
    /\ co' = MirrorCoils(co, eq')
    /\ hist' = [NoHist EXCEPT !.act = "tick"]
    /\ UNCHANGED <<alarm_scenario_counter, alarm_active, alarm_duration,
                   current_alarm_sensors, alarm_cycle_number, me_load, obs,
                   ringVars, teleVars, pl, tk, writes, lastw>>

\* Modbus function 15 on the command block 64064..64083: one request that
\* sets the STOP coil of every actuator and resets every START coil
ClientBlock ==
    /\ writes < MaxVfdWrites
    /\ co' = [a \in CoilAddrs |->
                 IF a \in 64064..64083
                 THEN (IF (a - 64064) % 2 = 1 THEN 1 ELSE 0)
                 ELSE co[a]]
    /\ writes' = writes + 1
    /\ hist' = [NoHist EXCEPT !.act = "client"]
    /\ UNCHANGED <<eq, hr, schedVars, pl, tk, lastw>>

VfdNext == VfdTick \/ PollScan \/ ClientBlock

SpecVfd == Init /\ [][VfdNext]_vars

\* Modbus function 6 on the target register of SWP1, HR 5000
SlewTarget ==
    /\ writes < MaxSlewWrites
    /\ \E v \in SlewTargets : hr' = [hr EXCEPT ![TargetReg(0)] = v]
    /\ writes' = writes + 1
    /\ hist' = [NoHist EXCEPT !.act = "client"]
    /\ UNCHANGED <<eq, co, schedVars, pl, tk, lastw>>

SlewNext == PollScan \/ TickEquip \/ ClientPush \/ SlewTarget

SpecSlew == Init /\ [][SlewNext]_vars

\* the sensor thread loops for the life of the process
FairSlew == SpecSlew /\ WF_vars(TickEquip)

\* One whole tick with the alarm detection: the sensor alarm cycle, the
\* sensor values and their registers, update_equipment_status,
\* update_vfd_data, check_alarms.  One noise level n stands for all the
\* draws of the tick.  aobs records what the detection started from.
AlarmTickFrom(max, samples) ==
    /\ simulation_tick < max
    /\ simulation_tick' = simulation_tick + 1
    /\ \E pick \in (IF ~alarm_active /\ alarm_scenario_counter + 1 >= 90
                    THEN samples ELSE {{}}) :
         LET cyc == AlarmCycle(alarm_scenario_counter, alarm_active, alarm_duration,
                               current_alarm_sensors, alarm_cycle_number, pick)
         IN  /\ alarm_scenario_counter' = cyc.counter
             /\ alarm_active' = cyc.active
             /\ alarm_duration' = cyc.duration
             /\ current_alarm_sensors' = cyc.sensors
             /\ alarm_cycle_number' = cyc.cycle
             /\ \E n \in NoiseLevels :
                  LET tx == Temperatures(cyc.active, cyc.sensors, me_load,
                                         simulation_tick', n)
                      px == Pressure(cyc.active, cyc.sensors, me_load, eq, n)
                      ld == MeLoad(cyc.active, cyc.sensors, simulation_tick', n)
                      h1 == StatusRegs(hr, eq)
                      d  == DetectAfterEncode(h1, tx, px, ld, recent_alarms,
                                              Now(simulation_tick'))
                  IN  /\ me_load' = ld
                      /\ hr' = d.hr
                      /\ recent_alarms' = d.ring
                      /\ aobs' = [act  |-> "tick",
                                  len0 |-> Len(recent_alarms),
                                  dup  |-> LET sig == SignalledAlarms(
                                                        SensorRegs(h1, tx, px, ld))
                                           IN  \E k \in 1..Len(sig) :
                                                  Duplicate(recent_alarms, sig[k]),
                                  w0   |-> hr[7100]]
    /\ eq' = VfdEquipment(eq, hr)
    /\ co' = MirrorCoils(co, eq')
    /\ hist' = [NoHist EXCEPT !.act = "tick"]
    /\ UNCHANGED <<obs, vfdVars, teleVars, pl, tk, writes, lastw>>

\* every selection random.sample can return
AlarmTickUpTo(max) == AlarmTickFrom(max, AlarmSamples)

AlarmTick == AlarmTickUpTo(MaxAlarmTick)

SpecAlarm == Init /\ [][AlarmTick]_vars

\* the two background threads with no client: whole ticks with the alarm
\* detection, and scans of the command poller
ColdTick == AlarmTickUpTo(MaxColdTick)

ColdNext == ColdTick \/ PollScan

SpecCold == Init /\ [][ColdNext]_vars

\* the first ticks after boot, with a client that writes thresholds
DetectTick == AlarmTickUpTo(MaxDetectTick)

\* the values a client writes to threshold register HR 7000+k: values
\* around the readings of the first ticks, and the default
ThresholdWrites(k) ==
    CASE k = 0 -> {0, 245, 300}
      [] k \in 1..6 -> {0, DefaultThresholds[k + 1]}
      [] k = 7 -> {150, 300}
      [] k = 8 -> {200, 400}
      [] k = 9 -> {100, 850}

\* Modbus function 6 on a threshold register HR 7000+k
ClientThreshold ==
    /\ writes < MaxDetectWrites
    /\ \E k \in 0..9 : \E v \in ThresholdWrites(k) :
          hr' = [hr EXCEPT ![7000 + k] = v]
    /\ writes' = writes + 1
    /\ aobs' = [aobs EXCEPT !.act = "client"]
    /\ hist' = [NoHist EXCEPT !.act = "client"]
    /\ UNCHANGED <<eq, co, simulation_tick, alarm_scenario_counter, alarm_active,
                   alarm_duration, current_alarm_sensors, alarm_cycle_number,
                   me_load, obs, vfdVars, recent_alarms, teleVars, pl, tk, lastw>>

DetectNext == DetectTick \/ ClientThreshold

\* Modbus function 16 on HR 7000..7009: thresholds that every reading
\* violates, or the defaults
ClientThresholdBlock ==
    /\ writes < MaxDetectWrites
    /\ \E T \in {<<0, 0, 0, 0, 0, 0, 0, 65535, 0, 0>>, DefaultThresholds} :
          hr' = [a \in HRAddrs |-> IF a \in ThresholdRegs THEN T[a - 6999] ELSE hr[a]]
    /\ writes' = writes + 1
    /\ aobs' = [aobs EXCEPT !.act = "client"]
    /\ hist' = [NoHist EXCEPT !.act = "client"]
    /\ UNCHANGED <<eq, co, simulation_tick, alarm_scenario_counter, alarm_active,
                   alarm_duration, current_alarm_sensors, alarm_cycle_number,
                   me_load, obs, vfdVars, recent_alarms, teleVars, pl, tk, lastw>>

RingNext == DetectTick \/ ClientThreshold \/ ClientThresholdBlock

SpecRing == Init /\ [][RingNext]_vars

SpecDetect == Init /\ [][DetectNext]_vars

\* The tick as far as the equipment and the telemetry blocks go:
\* update_equipment_status and update_vfd_data with all the words of the
\* blocks.  The sensor alarm cycle, the VFD anomaly cycle and the sensors
\* are left out.
TeleTick ==
    /\ tobs.ticks < MaxTeleTick
    /\ eq' = VfdEquipment(eq, hr)
    /\ \E n \in NoiseLevels :
          /\ hr' = VfdTelemetry(StatusRegs(hr, eq), eq, vfd_anomaly_active,
                                current_vfd_anomalies, n)
          /\ tele' = [i \in Equipment |->
                         VfdBlock(i, eq[i], eq'[i].hz, tele[i], hr[PowerReg(i)], n)]
    /\ co' = MirrorCoils(co, eq')
    /\ hist' = [act |-> "tick", eq |-> eq, co |-> co]
    /\ tobs' = [ticks |-> tobs.ticks + 1]
    /\ UNCHANGED <<simulation_tick, alarm_scenario_counter, alarm_active,
                   alarm_duration, current_alarm_sensors, alarm_cycle_number,
                   me_load, obs, vfdVars, ringVars, pl, tk, writes, lastw>>

\* The state after one scan of the command poller and age ticks with no
\* client write: the scan adopts the mode coils, every tick leaves the
\* equipment and the coils as the first one does and adds 1 to the counters
\* of the running actuators; n is the draw of the last tick (and of
\* num_starts in the first).
AgedEquipment == [i \in Equipment |-> MonitorEquipment(i, EquipmentInit[i], CoilsInit, 0, 0)]

AgedTele(age, n) ==
    [i \in Equipment |->
        LET b == VfdBlock(i, AgedEquipment[i], AgedEquipment[i].hz, TeleInit[i], 0, n)
            c == IF IsRunning(AgedEquipment[i]) THEN age ELSE 0
        IN  [b EXCEPT ![9] = c % 65536, ![10] = c \div 65536,
                      ![18] = c % 65536, ![19] = c \div 65536]]

\* the process at boot, or after HourAge ticks
InitTele ==
    /\ \/ /\ eq = EquipmentInit
          /\ co = CoilsInit
          /\ hr = HoldingInit
          /\ tele = TeleInit
          /\ hist = NoHist
       \/ \E n \in NoiseLevels :
             /\ eq = AgedEquipment
             /\ co = MirrorCoils(MonitorCoils(CoilsInit), AgedEquipment)
             /\ hr = VfdTelemetry(StatusRegs(HoldingInit, AgedEquipment),
                                  AgedEquipment, FALSE, {}, n)
             /\ tele = AgedTele(HourAge, n)
             /\ hist = [act |-> "tick", eq |-> AgedEquipment,
                        co |-> MonitorCoils(CoilsInit)]
    /\ tobs = NoTobs
    /\ simulation_tick = 0
    /\ alarm_scenario_counter = 0
    /\ alarm_active = FALSE
    /\ alarm_duration = 0
    /\ current_alarm_sensors = {}
    /\ alarm_cycle_number = 0
    /\ me_load = 30000
    /\ pl = ThreadIdle
    /\ tk = ThreadIdle
    /\ writes = 0
    /\ lastw = [a \in ModeCoils |-> -1]
    /\ obs = NoObs
    /\ vfd_anomaly_counter = 0
    /\ vfd_anomaly_active = FALSE
    /\ vfd_anomaly_duration = 0
    /\ current_vfd_anomalies = {}
    /\ vfd_anomaly_cycle_number = 0
    /\ vobs = NoVobs
    /\ recent_alarms = << >>
    /\ aobs = NoAobs

TeleNext == TeleTick \/ PollScan \/ ClientPush

SpecTele == InitTele /\ [][TeleNext]_vars

\* a client writes the coils 64064..64087 in one request (Modbus function
\* 15): every STOP coil and the BWD coil of FAN1 set, the others reset
ClientReverse ==
    /\ writes < MaxBwdWrites
    /\ co' = [a \in CoilAddrs |->
                 IF a \in 64064..64083
                 THEN (IF (a - 64064) % 2 = 1 THEN 1 ELSE 0)
                 ELSE IF a \in 64084..64087
                 THEN (IF a = BwdCoil(6) THEN 1 ELSE 0)
                 ELSE co[a]]
    /\ writes' = writes + 1
    /\ hist' = [NoHist EXCEPT !.act = "client"]
    /\ UNCHANGED <<eq, hr, schedVars, pl, tk, lastw>>

VfdBwdNext == VfdTick \/ PollScan \/ ClientReverse

SpecVfdBwd == Init /\ [][VfdBwdNext]_vars

\* a client writes 1 to the START or the STOP coil of SWP3 (Modbus
\* function 5 on coil 64068 or 64069)
ClientStart ==
    /\ writes < MaxStartWrites
    /\ \E a \in {StartCoil(2), StopCoil(2)} : co' = [co EXCEPT ![a] = 1]
    /\ writes' = writes + 1
    /\ hist' = [NoHist EXCEPT !.act = "client"]
    /\ UNCHANGED <<eq, hr, schedVars, pl, tk, lastw>>

StartNext == PollScan \/ TickEquip \/ ClientStart

SpecStart == Init /\ [][StartNext]_vars

\* a client writes the coils 64064..64087 in one request (Modbus function
\* 15): every coil set (START, STOP and BWD of every actuator at once), or
\* every START coil set and the others reset
ClientCoilBlock ==
    /\ writes < MaxBlockWrites
    /\ \E all \in BOOLEAN :
          co' = [a \in CoilAddrs |->
                    IF a \in 64064..64087
                    THEN (IF all \/ a \in {StartCoil(i) : i \in Equipment} THEN 1 ELSE 0)
                    ELSE co[a]]
    /\ writes' = writes + 1
    /\ hist' = [NoHist EXCEPT !.act = "client"]
    /\ UNCHANGED <<eq, hr, schedVars, pl, tk, lastw>>

PrecedenceNext == PollScan \/ TickEquip \/ ClientCoilBlock

SpecPrecedence == Init /\ [][PrecedenceNext]_vars

\* a client writes the coils 64064..64069 in one request (Modbus function
\* 15): the STOP coils of SWP1..SWP3 set, or their START coils set
ClientRun ==
    /\ writes < MaxQuietWrites
    /\ \E stop \in BOOLEAN :
          co' = [a \in CoilAddrs |->
                    IF a \in 64064..64069
                    THEN (IF (a \in {StopCoil(i) : i \in 0..2}) = stop THEN 1 ELSE 0)
                    ELSE co[a]]
    /\ writes' = writes + 1
    /\ hist' = [NoHist EXCEPT !.act = "client"]
    /\ aobs' = [aobs EXCEPT !.act = "client"]
    /\ UNCHANGED <<eq, hr, simulation_tick, alarm_scenario_counter, alarm_active,
                   alarm_duration, current_alarm_sensors, alarm_cycle_number,
                   me_load, obs, vfdVars, recent_alarms, teleVars, pl, tk, lastw>>

\* the firings explored in SpecQuiet: the selections that override the
\* load, which the heat-load factor and PX1 of the next tick read, or PX1
QuietSamples == {{"PU1", "PX1_HIGH"}, {"PX1_LOW", "TX2"}}

QuietTick == AlarmTickFrom(MaxQuietTick, QuietSamples)

\* the two background threads and a client that starts and stops the sea
\* water pumps; the thresholds keep their defaults
QuietNext == QuietTick \/ PollScan \/ ClientRun

SpecQuiet == Init /\ [][QuietNext]_vars

\* both background threads loop for the life of the process: each keeps
\* getting its turn
FairSpec == Spec /\ WF_vars(PollScan) /\ WF_vars(TickEquip)

-----------------------------------------------------------------------------
(* The command thread and the sensor thread, statement by statement.       *)
(* The interpreter may switch threads between any two statements.  A step  *)
(* here is one assignment to a field of the equipment table, one read of   *)
(* a field by update_equipment_status, or a group of statements as its     *)
(* comment says; every behaviour of these steps is a behaviour of the two  *)
(* threads.  The loops run over the actuators of ConcEquip; an iteration   *)
(* for another actuator touches only that actuator's entry and coils.      *)
(* The statements of the tick before update_equipment_status write no      *)
(* equipment field and no coil, and are not steps here.                    *)

\* the actuators whose iterations are interleaved, in the order of the
\* loops: SWP1 (running at boot), SWP3 (stopped), FAN1 (running forward),
\* FAN3 (stopped)
ConcEquip == <<0, 2, 6, 8>>

PollLocals == [pc |-> "read", k |-> 1, sv |-> 0, pv |-> 0, bv |-> 0]
TickLocals == [pc |-> "st", k |-> 1, j |-> 1, snap |-> EquipmentInit,
               run |-> FALSE, f |-> 0, auto |-> FALSE, vfd |-> FALSE]

PollAt(pc) == pl.pc = pc
PollEq == ConcEquip[pl.k]
TickAt(pc) == tk.pc = pc
TickEq == ConcEquip[tk.k]

PollFrame == UNCHANGED <<hr, schedVars, tk, writes, lastw, hist>>
TickFrame == UNCHANGED <<schedVars, pl, writes, lastw, hist>>

\* while self.running: (the next scan, after time.sleep(0.1))
PollWake ==
    /\ PollAt("idle")
    /\ pl' = PollLocals
    /\ UNCHANGED <<eq, co>> /\ PollFrame

\* start_coil_value = self.store.getValues(1, start_coil_addr, 1)[0] and
\* stop_coil_value = self.store.getValues(1, stop_coil_addr, 1)[0]
PollRead ==
    /\ PollAt("read")
    /\ pl' = [pl EXCEPT !.sv = co[StartCoil(PollEq)], !.pv = co[StopCoil(PollEq)],
                        !.pc = IF PollEq < 6 THEN "start" ELSE "fstart"]
    /\ UNCHANGED <<eq, co>> /\ PollFrame

\* pump: if start_coil_value: if not running: running = True
PollStart ==
    /\ PollAt("start")
    /\ IF pl.sv = 0
       THEN pl' = [pl EXCEPT !.pc = "stop"] /\ UNCHANGED eq
       ELSE IF eq[PollEq].running
       THEN pl' = [pl EXCEPT !.pc = "start_clr"] /\ UNCHANGED eq
       ELSE /\ eq' = [eq EXCEPT ![PollEq].running = TRUE]
            /\ pl' = [pl EXCEPT !.pc = "start_ess"]
    /\ UNCHANGED co /\ PollFrame

\* ess_on = True
PollStartEss ==
    /\ PollAt("start_ess")
    /\ eq' = [eq EXCEPT ![PollEq].ess_on = TRUE]
    /\ pl' = [pl EXCEPT !.pc = "start_hz"]
    /\ UNCHANGED co /\ PollFrame

\* hz = 45.0 + random.uniform(-2, 2)
PollStartHz ==
    /\ PollAt("start_hz")
    /\ \E n \in HzNoise : eq' = [eq EXCEPT ![PollEq].hz = 450 + n]
    /\ pl' = [pl EXCEPT !.pc = "start_clr"]
    /\ UNCHANGED co /\ PollFrame

\* self.store.setValues(1, start_coil_addr, [0])
PollStartClr ==
    /\ PollAt("start_clr")
    /\ co' = [co EXCEPT ![StartCoil(PollEq)] = 0]
    /\ pl' = [pl EXCEPT !.pc = "stop"]
    /\ UNCHANGED eq /\ PollFrame

\* pump: if stop_coil_value: if running: running = False
PollStop ==
    /\ PollAt("stop")
    /\ IF pl.pv = 0
       THEN pl' = [pl EXCEPT !.pc = "modes"] /\ UNCHANGED eq
       ELSE IF ~eq[PollEq].running
       THEN pl' = [pl EXCEPT !.pc = "stop_clr"] /\ UNCHANGED eq
       ELSE /\ eq' = [eq EXCEPT ![PollEq].running = FALSE]
            /\ pl' = [pl EXCEPT !.pc = "stop_ess"]
    /\ UNCHANGED co /\ PollFrame

\* ess_on = False
PollStopEss ==
    /\ PollAt("stop_ess")
    /\ eq' = [eq EXCEPT ![PollEq].ess_on = FALSE]
    /\ pl' = [pl EXCEPT !.pc = "stop_hz"]
    /\ UNCHANGED co /\ PollFrame

\* hz = 0.0
PollStopHz ==
    /\ PollAt("stop_hz")
    /\ eq' = [eq EXCEPT ![PollEq].hz = 0]
    /\ pl' = [pl EXCEPT !.pc = "stop_clr"]
    /\ UNCHANGED co /\ PollFrame

\* self.store.setValues(1, stop_coil_addr, [0])
PollStopClr ==
    /\ PollAt("stop_clr")
    /\ co' = [co EXCEPT ![StopCoil(PollEq)] = 0]
    /\ pl' = [pl EXCEPT !.pc = "modes"]
    /\ UNCHANGED eq /\ PollFrame

\* fan: if start_coil_value: if not running_fwd: running_fwd = True
PollFanStart ==
    /\ PollAt("fstart")
    /\ IF pl.sv = 0
       THEN pl' = [pl EXCEPT !.pc = "fstop"] /\ UNCHANGED eq
       ELSE IF eq[PollEq].running_fwd
       THEN pl' = [pl EXCEPT !.pc = "fstart_clr"] /\ UNCHANGED eq
       ELSE /\ eq' = [eq EXCEPT ![PollEq].running_fwd = TRUE]
            /\ pl' = [pl EXCEPT !.pc = "fstart_bwd"]
    /\ UNCHANGED co /\ PollFrame

\* running_bwd = False
PollFanStartBwd ==
    /\ PollAt("fstart_bwd")
    /\ eq' = [eq EXCEPT ![PollEq].running_bwd = FALSE]
    /\ pl' = [pl EXCEPT !.pc = "fstart_hz"]
    /\ UNCHANGED co /\ PollFrame

\* hz = 45.0 + random.uniform(-2, 2)
PollFanStartHz ==
    /\ PollAt("fstart_hz")
    /\ \E n \in HzNoise : eq' = [eq EXCEPT ![PollEq].hz = 450 + n]
    /\ pl' = [pl EXCEPT !.pc = "fstart_clr"]
    /\ UNCHANGED co /\ PollFrame

\* self.store.setValues(1, start_coil_addr, [0])
PollFanStartClr ==
    /\ PollAt("fstart_clr")
    /\ co' = [co EXCEPT ![StartCoil(PollEq)] = 0]
    /\ pl' = [pl EXCEPT !.pc = "fstop"]
    /\ UNCHANGED eq /\ PollFrame

\* fan: if stop_coil_value: if running_fwd or running_bwd: running_fwd = False
PollFanStop ==
    /\ PollAt("fstop")
    /\ IF pl.pv = 0
       THEN pl' = [pl EXCEPT !.pc = "bwd_read"] /\ UNCHANGED eq
       ELSE IF ~(eq[PollEq].running_fwd \/ eq[PollEq].running_bwd)
       THEN pl' = [pl EXCEPT !.pc = "fstop_clr"] /\ UNCHANGED eq
       ELSE /\ eq' = [eq EXCEPT ![PollEq].running_fwd = FALSE]
            /\ pl' = [pl EXCEPT !.pc = "fstop_bwd"]
    /\ UNCHANGED co /\ PollFrame

\* running_bwd = False
PollFanStopBwd ==
    /\ PollAt("fstop_bwd")
    /\ eq' = [eq EXCEPT ![PollEq].running_bwd = FALSE]
    /\ pl' = [pl EXCEPT !.pc = "fstop_hz"]
    /\ UNCHANGED co /\ PollFrame

\* hz = 0.0
PollFanStopHz ==
    /\ PollAt("fstop_hz")
    /\ eq' = [eq EXCEPT ![PollEq].hz = 0]
    /\ pl' = [pl EXCEPT !.pc = "fstop_clr"]
    /\ UNCHANGED co /\ PollFrame

\* self.store.setValues(1, stop_coil_addr, [0])
PollFanStopClr ==
    /\ PollAt("fstop_clr")
    /\ co' = [co EXCEPT ![StopCoil(PollEq)] = 0]
    /\ pl' = [pl EXCEPT !.pc = "bwd_read"]
    /\ UNCHANGED eq /\ PollFrame

\* bwd_coil_value = self.store.getValues(1, bwd_coil_addr, 1)[0]
PollReadBwd ==
    /\ PollAt("bwd_read")
    /\ pl' = [pl EXCEPT !.bv = co[BwdCoil(PollEq)], !.pc = "bwd"]
    /\ UNCHANGED <<eq, co>> /\ PollFrame

\* if bwd_coil_value: if not running_bwd: running_fwd = False
PollBwd ==
    /\ PollAt("bwd")
    /\ IF pl.bv = 0
       THEN pl' = [pl EXCEPT !.pc = "modes"] /\ UNCHANGED eq
       ELSE IF eq[PollEq].running_bwd
       THEN pl' = [pl EXCEPT !.pc = "bwd_clr"] /\ UNCHANGED eq
       ELSE /\ eq' = [eq EXCEPT ![PollEq].running_fwd = FALSE]
            /\ pl' = [pl EXCEPT !.pc = "bwd_bwd"]
    /\ UNCHANGED co /\ PollFrame

\* running_bwd = True
PollBwdBwd ==
    /\ PollAt("bwd_bwd")
    /\ eq' = [eq EXCEPT ![PollEq].running_bwd = TRUE]
    /\ pl' = [pl EXCEPT !.pc = "bwd_hz"]
    /\ UNCHANGED co /\ PollFrame

\* hz = 45.0 + random.uniform(-2, 2)
PollBwdHz ==
    /\ PollAt("bwd_hz")
    /\ \E n \in HzNoise : eq' = [eq EXCEPT ![PollEq].hz = 450 + n]
    /\ pl' = [pl EXCEPT !.pc = "bwd_clr"]
    /\ UNCHANGED co /\ PollFrame

\* self.store.setValues(1, bwd_coil_addr, [0])
PollBwdClr ==
    /\ PollAt("bwd_clr")
    /\ co' = [co EXCEPT ![BwdCoil(PollEq)] = 0]
    /\ pl' = [pl EXCEPT !.pc = "modes"]
    /\ UNCHANGED eq /\ PollFrame

\* the AUTO/MANUAL and VFD/BYPASS statements of the actuator: each coil is
\* read and adopted; then the next actuator, or time.sleep(0.1)
PollModes ==
    /\ PollAt("modes")
    /\ eq' = [eq EXCEPT ![PollEq] = ModeCommand(eq[PollEq], co[AutoCoil(PollEq)],
                                                co[VfdCoil(PollEq)])]
    /\ pl' = IF pl.k < Len(ConcEquip)
             THEN [PollLocals EXCEPT !.k = pl.k + 1]
             ELSE ThreadIdle
    /\ UNCHANGED co /\ PollFrame

PollStep ==
    \/ PollWake \/ PollRead
    \/ PollStart \/ PollStartEss \/ PollStartHz \/ PollStartClr
    \/ PollStop \/ PollStopEss \/ PollStopHz \/ PollStopClr
    \/ PollFanStart \/ PollFanStartBwd \/ PollFanStartHz \/ PollFanStartClr
    \/ PollFanStop \/ PollFanStopBwd \/ PollFanStopHz \/ PollFanStopClr
    \/ PollReadBwd \/ PollBwd \/ PollBwdBwd \/ PollBwdHz \/ PollBwdClr
    \/ PollModes

\* the next tick, after time.sleep(1)
TickWake ==
    /\ TickAt("idle")
    /\ tk' = TickLocals
    /\ UNCHANGED <<eq, co, hr>> /\ TickFrame

\* update_equipment_status: one "if self.equipment[name][field]" of an
\* actuator of ConcEquip; the field read is kept in snap.  A pump is read
\* as running, ess_on and a fan as running_fwd, running_bwd (abnormal is
\* written nowhere).
TickStatusRead ==
    /\ TickAt("st")
    /\ LET i == TickEq
           e == tk.snap[i]
           e1 == IF i < 6
                 THEN IF tk.j = 1 THEN [e EXCEPT !.running = eq[i].running]
                                  ELSE [e EXCEPT !.ess_on = eq[i].ess_on]
                 ELSE IF tk.j = 1 THEN [e EXCEPT !.running_fwd = eq[i].running_fwd]
                                  ELSE [e EXCEPT !.running_bwd = eq[i].running_bwd]
       IN  tk' = [tk EXCEPT !.snap = [tk.snap EXCEPT ![i] = e1],
                            !.j = IF tk.j = 1 THEN 2 ELSE 1,
                            !.k = IF tk.j = 1 THEN tk.k
                                  ELSE IF tk.k < Len(ConcEquip) THEN tk.k + 1 ELSE 1,
                            !.pc = IF tk.j = 2 /\ tk.k = Len(ConcEquip)
                                   THEN "st_write" ELSE "st"]
    /\ UNCHANGED <<eq, co, hr>> /\ TickFrame

\* self.store.setValues(3, 4000, [word_4000, word_4001])
TickStatusWrite ==
    /\ TickAt("st_write")
    /\ hr' = StatusRegs(hr, tk.snap)
    /\ tk' = [tk EXCEPT !.snap = EquipmentInit, !.pc = "v_read"]
    /\ UNCHANGED <<eq, co>> /\ TickFrame

\* update_vfd_data, head of the iteration: running, vfd_command_freq =
\* eq['hz'], auto_mode and vfd_mode are read
TickVfdRead ==
    /\ TickAt("v_read")
    /\ tk' = [tk EXCEPT !.run = IsRunning(eq[TickEq]),
                        !.f = eq[TickEq].hz,
                        !.auto = eq[TickEq].auto_mode,
                        !.vfd = eq[TickEq].vfd_mode,
                        !.pc = "v_store"]
    /\ UNCHANGED <<eq, co, hr>> /\ TickFrame

\* the slew towards HR 5000+i and eq['hz'] = vfd_command_freq; then the
\* next actuator, or the mode coil loop
TickVfdStore ==
    /\ TickAt("v_store")
    /\ eq' = [eq EXCEPT ![TickEq].hz = CommandFreq(tk.auto, tk.vfd, tk.run, tk.f,
                                                  hr[TargetReg(TickEq)])]
    /\ tk' = IF tk.k < Len(ConcEquip)
             THEN [TickLocals EXCEPT !.pc = "v_read", !.k = tk.k + 1]
             ELSE [TickLocals EXCEPT !.pc = "mirror"]
    /\ UNCHANGED <<co, hr>> /\ TickFrame

\* the loop that writes auto_mode and vfd_mode to the mode coils; then
\* time.sleep(1)
TickMirror ==
    /\ TickAt("mirror")
    /\ co' = MirrorCoils(co, eq)
    /\ tk' = ThreadIdle
    /\ UNCHANGED <<eq, hr>> /\ TickFrame

TickStep ==
    \/ TickWake \/ TickStatusRead \/ TickStatusWrite
    \/ TickVfdRead \/ TickVfdStore \/ TickMirror

\* Modbus function 5 on a START, STOP or BWD coil of an actuator of ConcEquip
ConcPush ==
    /\ writes < MaxConcWrites
    /\ \E k \in 1..Len(ConcEquip) :
         LET i == ConcEquip[k]
         IN  \E a \in {StartCoil(i), StopCoil(i)} \cup (IF i \in Fans THEN {BwdCoil(i)} ELSE {}) :
                co' = [co EXCEPT ![a] = 1]
    /\ writes' = writes + 1
    /\ UNCHANGED <<eq, hr, schedVars, pl, tk, lastw, hist>>

ConcNext == PollStep \/ TickStep \/ ConcPush

SpecConc == Init /\ [][ConcNext]_vars

-----------------------------------------------------------------------------
(* Properties *)

BitSet(w, k) == (w \div (2 ^ k)) % 2 = 1

\* the command thread is between the first and the last assignment of a
\* START, STOP or BWD command of actuator i
MidCommand(i) ==
    /\ pl.pc \in {"start_ess", "start_hz", "stop_ess", "stop_hz",
                  "fstart_bwd", "fstart_hz", "fstop_bwd", "fstop_hz",
                  "bwd_bwd", "bwd_hz"}
    /\ PollEq = i

\* C1: no fan has running_fwd and running_bwd both true, and HR 4001 never
\* carries both direction bits of one fan, whatever the interleaving of the
\* poller's assignments with the tick's reads of the equipment table.
C1_FanDirectionsExclusive ==
    \A i \in Fans :
        /\ ~(eq[i].running_fwd /\ eq[i].running_bwd)
        /\ ~(BitSet(hr[4001], 2 + 3 * (i - 6)) /\ BitSet(hr[4001], 3 + 3 * (i - 6)))

\* C2: every running actuator has a commanded frequency above 0 (outside the
\* statements of a command that is being executed on it).
C2_RunningHasFrequency ==
    \A i \in Equipment : (IsRunning(eq[i]) /\ ~MidCommand(i)) => eq[i].hz > 0

\* C3: an actuator that is not running has commanded frequency 0: after a
\* STOP has been executed the frequency stays 0 until the next START or BWD.
C3_StoppedHasZeroFrequency ==
    \A i \in Equipment : (~IsRunning(eq[i]) /\ ~MidCommand(i)) => eq[i].hz = 0

\* C4: once a client has written v to a mode coil and writes no more, the
\* mode of the actuator eventually equals v with the coil still reading v.
C4_ModeWriteAdopted ==
    \A i \in ClientEquip : \A v \in {0, 1} :
        /\ (writes = MaxWrites /\ lastw[AutoCoil(i)] = v)
              ~> (eq[i].auto_mode = (v = 1) /\ co[AutoCoil(i)] = v)
        /\ (writes = MaxWrites /\ lastw[VfdCoil(i)] = v)
              ~> (eq[i].vfd_mode = (v = 1) /\ co[VfdCoil(i)] = v)

\* C5: as long as no client has written a mode coil, every actuator is in
\* auto mode and in VFD mode, as at boot.
C5_BootModesHold ==
    (\A a \in ModeCoils : lastw[a] = -1)
        => \A i \in Equipment : eq[i].auto_mode /\ eq[i].vfd_mode

\* C6: a poller scan resets every START, STOP and BWD coil it finds set,
\* whether or not the command changed the equipment, and leaves every mode
\* coil as it found it.
C6_MomentaryCoilsConsumed ==
    hist.act = "poll" =>
        /\ \A a \in MomentaryCoils : hist.co[a] = 1 => co[a] = 0
        /\ \A a \in ModeCoils : co[a] = hist.co[a]

\* a scan found START set on a pump that was already running, and reset it
C6_Witness ==
    /\ hist.act = "poll"
    /\ \E i \in Pumps : hist.co[StartCoil(i)] = 1 /\ hist.eq[i].running
                        /\ eq[i].running /\ co[StartCoil(i)] = 0

SameDrive(e, h) ==
    /\ e.running = h.running /\ e.ess_on = h.ess_on
    /\ e.running_fwd = h.running_fwd /\ e.running_bwd = h.running_bwd
    /\ e.hz = h.hz

\* C7: one poller scan on a pump.  START alone on a stopped pump: running,
\* ess_on, frequency in [43, 47] Hz; START alone on a running pump: nothing
\* changes; STOP on a running pump: not running, not ess_on, frequency 0;
\* STOP alone on a stopped pump: nothing changes (START and STOP both set
\* on a stopped pump: started, then stopped).  An actuator none of
\* whose command coils is set keeps its run state and frequency.
C7_PumpTransitions ==
    hist.act = "poll" =>
        /\ \A i \in Pumps :
             LET h == hist.eq[i]
                 e == eq[i]
                 sv == hist.co[StartCoil(i)]
                 pv == hist.co[StopCoil(i)]
             IN  /\ (sv = 1 /\ pv = 0 /\ ~h.running)
                       => (e.running /\ e.ess_on /\ e.hz \in 430..470)
                 /\ (sv = 1 /\ pv = 0 /\ h.running) => SameDrive(e, h)
                 /\ (pv = 1 /\ h.running) => (~e.running /\ ~e.ess_on /\ e.hz = 0)
                 /\ (pv = 1 /\ sv = 0 /\ ~h.running) => SameDrive(e, h)
                 \* START and STOP both set: the commands apply in that order
                 /\ (pv = 1 /\ sv = 1 /\ ~h.running)
                       => (~e.running /\ ~e.ess_on /\ e.hz = 0)
        /\ \A j \in Equipment :
             (/\ hist.co[StartCoil(j)] = 0
              /\ hist.co[StopCoil(j)] = 0
              /\ (j \in Fans => hist.co[BwdCoil(j)] = 0))
                => SameDrive(eq[j], hist.eq[j])

\* a scan found START alone set on a stopped pump, and started it
C7_Witness ==
    /\ hist.act = "poll"
    /\ \E i \in Pumps : /\ hist.co[StartCoil(i)] = 1 /\ hist.co[StopCoil(i)] = 0
                        /\ ~hist.eq[i].running /\ eq[i].running

\* C8: one poller scan on a fan.  BWD alone on a fan running forward:
\* running backward only, frequency in [43, 47] Hz, BWD coil reset; START
\* alone on a fan running backward: running forward only, frequency in
\* [43, 47] Hz.
C8_FanReversal ==
    hist.act = "poll" =>
        \A i \in Fans :
            LET h == hist.eq[i]
                e == eq[i]
                sv == hist.co[StartCoil(i)]
                pv == hist.co[StopCoil(i)]
                bv == hist.co[BwdCoil(i)]
            IN  /\ (h.running_fwd /\ bv = 1 /\ sv = 0 /\ pv = 0)
                      => (/\ ~e.running_fwd /\ e.running_bwd
                          /\ e.hz \in 430..470 /\ co[BwdCoil(i)] = 0)
                /\ (h.running_bwd /\ sv = 1 /\ pv = 0 /\ bv = 0)
                      => (e.running_fwd /\ ~e.running_bwd /\ e.hz \in 430..470)

\* a scan found BWD alone set on a fan running forward, and reversed it
C8_Witness ==
    /\ hist.act = "poll"
    /\ \E i \in Fans : /\ hist.eq[i].running_fwd /\ hist.co[BwdCoil(i)] = 1
                       /\ hist.co[StartCoil(i)] = 0 /\ hist.co[StopCoil(i)] = 0
                       /\ eq[i].running_bwd /\ ~eq[i].running_fwd

\* C9: every firing of the sensor alarm cycle overrides the readings on
\* exactly 15 consecutive ticks, the first being the tick of the
\* Idle-to-Firing transition.
C9_FiringWindowIs15Ticks ==
    /\ obs.last \in {0, 15}
    /\ obs.run <= 15
    /\ (obs.starts # << >> /\ simulation_tick = Last(obs.starts)) => obs.run = 1

\* C10: the counter of the sensor alarm cycle advances only while Idle: the
\* first firing starts at tick 90 and consecutive firings start 105 ticks
\* apart (90 normal ticks, then 15 alarm ticks).
C10_FiringsStart105TicksApart ==
    /\ alarm_active => alarm_scenario_counter = 0
    /\ obs.starts # << >> => obs.starts[1] = 90
    /\ \A k \in 1..(Len(obs.starts) - 1) : obs.starts[k + 1] - obs.starts[k] = 105

\* C11: with the actuators of the boot state running throughout (no
\* command was ever written), every firing of the VFD anomaly cycle after
\* the first starts after 60 ticks on which the cycle was Idle and no
\* telemetry was overridden.
C11_VfdIdleLasts60Ticks ==
    writes = 0 => vobs.gap = 60

\* C12: a tick that finds the VFD anomaly cycle Idle with its counter
\* reaching 60 and no actuator running leaves the cycle Idle, the cycle
\* number as it was and the counter at 60 or more.
C12_NoRunningKeepsIdle ==
    vobs.retry =>
        /\ ~vfd_anomaly_active
        /\ vfd_anomaly_cycle_number = vobs.cyc0
        /\ vfd_anomaly_counter >= 60

\* actuator i is running in auto mode and in VFD mode
SlewPre(q, i) == IsRunning(q[i]) /\ q[i].auto_mode /\ q[i].vfd_mode

\* C13: over any step in which no START, STOP or BWD coil of an actuator
\* changes and the actuator is running in auto and VFD mode before and
\* after, its commanded frequency changes by at most 0.5 Hz.
C13_SlewRateLimited ==
    [][\A i \in Equipment :
         (/\ SlewPre(eq, i) /\ SlewPre(eq', i)
          /\ co'[StartCoil(i)] = co[StartCoil(i)]
          /\ co'[StopCoil(i)] = co[StopCoil(i)]
          /\ (i \in Fans => co'[BwdCoil(i)] = co[BwdCoil(i)]))
            => Abs(eq'[i].hz - eq[i].hz) <= 5]_vars

\* C14: the commanded frequency of every actuator is within [0, 60] Hz.
C14_FrequencyInRange ==
    \A i \in Equipment : eq[i].hz \in 0..600

\* C15: on a tick that finds an actuator running in auto and VFD mode with
\* a target T, 0 < T <= 60 Hz, the commanded frequency moves towards T
\* without passing it, moves if it is not at T and stays if it is; and if
\* from some point on the actuator stays so with the same T, the frequency
\* is T from some point on.
C15_SlewConverges ==
    /\ [][\A i \in Equipment :
            LET T == hr[TargetReg(i)]
                f == eq[i].hz
                g == eq'[i].hz
            IN  (hist'.act = "tick" /\ SlewPre(eq, i) /\ T \in 1..600)
                  => /\ f <= T => (f <= g /\ g <= T)
                     /\ f >= T => (T <= g /\ g <= f)
                     /\ f # T => g # f]_vars
    /\ \A T \in SlewTargets \cap (1..600) :
          <>[](SlewPre(eq, 0) /\ hr[TargetReg(0)] = T) => <>[](eq[0].hz = T)

\* a tick has stepped SWP1 from its boot frequency 45.5 Hz to 46.5 Hz on
\* the way to the target 47.0 Hz
C15_Witness ==
    /\ hist.act = "tick"
    /\ SlewPre(eq, 0)
    /\ hr[TargetReg(0)] = 470
    /\ eq[0].hz = 465


-----------------------------------------------------------------------------
(* Alarm detection *)

\* C16: after a tick's alarm detection, bit i (i = 0..6) of HR 7100 is set
\* iff HR[10+i] > HR[7000+i]; bit 0 of HR 7101 iff HR 17 / 4608 < HR 7007 /
\* 100, bit 1 iff HR 17 / 4608 > HR 7008 / 100, bit 2 iff HR 19 / 276.48 >
\* HR 7009 / 10; every other bit is 0.  It holds for the thresholds a client
\* writes, and a bit is 0 on the first tick its condition is false.
C16_AlarmBitsMatchConditions ==
    aobs.act = "tick" =>
        /\ \A i \in 0..6 : BitSet(hr[7100], i) <=> hr[10 + i] > hr[7000 + i]
        /\ BitSet(hr[7101], 0) <=> hr[17] * 100 < hr[7007] * 4608
        /\ BitSet(hr[7101], 1) <=> hr[17] * 100 > hr[7008] * 4608
        /\ BitSet(hr[7101], 2) <=> hr[19] * 1000 > hr[7009] * 27648
        /\ hr[7100] < 128
        /\ hr[7101] < 8

\* the TX1 bit was set by the tick before, a client raised the threshold
\* back, and this tick cleared the bit
C16_Witness ==
    /\ aobs.act = "tick"
    /\ writes = 2
    /\ BitSet(aobs.w0, 0)
    /\ ~BitSet(hr[7100], 0)
    /\ hr[10] <= hr[7000]

\* the bit of HR 7100 / HR 7101 of catalog entry k
DetectBit(h, k) ==
    CASE k = "TX1" -> BitSet(h[7100], 0)
      [] k = "TX2" -> BitSet(h[7100], 1)
      [] k = "TX3" -> BitSet(h[7100], 2)
      [] k = "TX4" -> BitSet(h[7100], 3)
      [] k = "TX5" -> BitSet(h[7100], 4)
      [] k = "TX6" -> BitSet(h[7100], 5)
      [] k = "TX7" -> BitSet(h[7100], 6)
      [] k = "PX1_LOW" -> BitSet(h[7101], 0)
      [] k = "PX1_HIGH" -> BitSet(h[7101], 1)
      [] k = "PU1" -> BitSet(h[7101], 2)

TxName(k) ==
    CASE k = 1 -> "TX1" [] k = 2 -> "TX2" [] k = 3 -> "TX3" [] k = 4 -> "TX4"
      [] k = 5 -> "TX5" [] k = 6 -> "TX6" [] k = 7 -> "TX7"

\* C17: on the tick that starts a firing window selecting TXk, with the
\* default thresholds, the same tick writes the overridden value to HR
\* 10+(k-1), sets bit k-1 of HR 7100, leaves a ring entry (code k, kind 1,
\* status 0) and HR 7102 >= 1.
C17_AlarmVisibleInStartingTick ==
    (aobs.act = "tick" /\ alarm_active /\ alarm_duration = 1) =>
        \A k \in 1..7 :
            TxName(k) \in current_alarm_sensors =>
                /\ InAlarmBand(hr, TxName(k))
                /\ BitSet(hr[7100], k - 1)
                /\ \E j \in 1..Len(recent_alarms) :
                      /\ recent_alarms[j].code = k
                      /\ recent_alarms[j].type = 1
                      /\ recent_alarms[j].status = 0
                /\ hr[7102] >= 1

\* the first firing window starts with TX6 selected: HR 15 is 515..525,
\* bit 5 is set and the entry was appended by this tick
C17_Witness ==
    /\ aobs.act = "tick"
    /\ alarm_active /\ alarm_duration = 1 /\ alarm_cycle_number = 1
    /\ "TX6" \in current_alarm_sensors
    /\ hr[15] \in 515..525
    /\ BitSet(hr[7100], 5)
    /\ aobs.len0 = 0
    /\ \E j \in 1..Len(recent_alarms) : recent_alarms[j].code = 6

\* C18: on every tick of a firing window, with the default thresholds,
\* each of the two selected catalog entries is overridden and detected,
\* for every pair of entries: TXk sets bit k-1 of HR 7100, PX1 low bit 0 of
\* HR 7101, PX1 high bit 1, PU1 bit 2.
C18_SelectedAreDetected ==
    (aobs.act = "tick" /\ alarm_active) =>
        \A k \in current_alarm_sensors :
            InAlarmBand(hr, k) /\ DetectBit(hr, k)

\* C19: after every tick HR 7102 is the number of ring entries with status
\* 0, also on the ticks that append entries.
C19_UnackCountMatchesRing ==
    hr[7102] = Cardinality({j \in 1..Len(recent_alarms) :
                               recent_alarms[j].status = 0})

\* a tick appended two entries and HR 7102 counts them
C19_Witness ==
    /\ aobs.act = "tick"
    /\ aobs.len0 = 2
    /\ Len(recent_alarms) = 4
    /\ hr[7102] = 4

\* C20: the ring never holds two entries with the same (code, kind) and
\* status 0; an alarm signalled over many ticks, or again in a later cycle,
\* has exactly one entry.
C20_RingHasNoDuplicates ==
    /\ \A i, j \in 1..Len(recent_alarms) :
          ( /\ recent_alarms[i].code = recent_alarms[j].code
            /\ recent_alarms[i].type = recent_alarms[j].type
            /\ recent_alarms[i].status = 0
            /\ recent_alarms[j].status = 0 ) => i = j
    /\ aobs.act = "tick" =>
          \A k \in AlarmNames :
              DetectBit(hr, k) =>
                  Cardinality({j \in 1..Len(recent_alarms) :
                      /\ recent_alarms[j].code =
                            (CASE k = "PX1_LOW" -> 10 [] k = "PX1_HIGH" -> 10
                               [] k = "PU1" -> 11
                               [] OTHER -> CHOOSE n \in 1..7 : TxName(n) = k)
                      /\ recent_alarms[j].type =
                            (IF k = "PX1_LOW" THEN 2 ELSE 1)}) = 1

\* the second firing window starts with the pair of the first one: both
\* alarms are signalled again and the ring keeps its two entries
C20_Witness ==
    /\ aobs.act = "tick"
    /\ alarm_active /\ alarm_duration = 1 /\ alarm_cycle_number = 2
    /\ aobs.dup
    /\ aobs.len0 = 2
    /\ Len(recent_alarms) = 2
    /\ hr[7103] = 1

\* C21: HR 7103 written by a tick is 1 iff an alarm condition was signalled
\* on that tick, i.e. iff the HR 7100 or HR 7101 word of the tick is not 0,
\* also when every signalled alarm was a duplicate; it is 0 otherwise.
C21_NewAlarmFlagIffSignalled ==
    aobs.act = "tick" =>
        /\ hr[7103] \in {0, 1}
        /\ hr[7103] = 1 <=> (hr[7100] # 0 \/ hr[7101] # 0)

\* in the middle of a firing window both alarms are duplicates of ring
\* entries, nothing is appended and the flag is 1
C21_Witness ==
    /\ aobs.act = "tick"
    /\ alarm_active /\ alarm_duration = 7
    /\ aobs.dup
    /\ Len(recent_alarms) = aobs.len0
    /\ hr[7100] # 0
    /\ hr[7103] = 1

-----------------------------------------------------------------------------
(* Status words, ownership, telemetry *)

\* C23: after a tick HR 4000 and HR 4001 are the bit-packing of the
\* equipment table: bits 3k, 3k+1, 3k+2 of HR 4000 are run, ess, abn of
\* pump k (k = 0..4), bit 15 is FWP3 run; bits 0, 1 of HR 4001 are FWP3
\* ess, abn, bits 2+3j, 3+3j, 4+3j are runFwd, runBwd, abn of fan j
\* (j = 0..3), bits 14 and 15 are 0.
C23_StatusWordsPackEquipment ==
    hist.act = "tick" =>
        /\ \A k \in 0..4 :
              /\ BitSet(hr[4000], 3 * k) <=> eq[k].running
              /\ BitSet(hr[4000], (3 * k) + 1) <=> eq[k].ess_on
              /\ BitSet(hr[4000], (3 * k) + 2) <=> eq[k].abnormal
        /\ BitSet(hr[4000], 15) <=> eq[5].running
        /\ hr[4000] < 65536
        /\ BitSet(hr[4001], 0) <=> eq[5].ess_on
        /\ BitSet(hr[4001], 1) <=> eq[5].abnormal
        /\ \A j \in 0..3 :
              /\ BitSet(hr[4001], 2 + (3 * j)) <=> eq[6 + j].running_fwd
              /\ BitSet(hr[4001], 3 + (3 * j)) <=> eq[6 + j].running_bwd
              /\ BitSet(hr[4001], 4 + (3 * j)) <=> eq[6 + j].abnormal
        /\ hr[4001] < 16384

\* a tick packs FAN1 running backward and SWP1 stopped
C23_Witness ==
    /\ hist.act = "tick"
    /\ eq[6].running_bwd /\ ~eq[6].running_fwd
    /\ BitSet(hr[4001], 3) /\ ~BitSet(hr[4001], 2)
    /\ ~eq[0].running /\ ~BitSet(hr[4000], 0) /\ ~BitSet(hr[4000], 1)
    /\ BitSet(hr[4000], 3)

\* C24: after a client sets the START coil of the stopped pump SWP3, bit 6
\* of HR 4000 is 1 when the next scan of the command poller has completed,
\* with no tick in between.
C24_StartVisibleAfterScan ==
    ( /\ hist.act = "poll"
      /\ hist.co[StartCoil(2)] = 1
      /\ hist.co[StopCoil(2)] = 0
      /\ ~hist.eq[2].running ) => BitSet(hr[4000], 6)

\* the client-owned addresses of the model: holding registers 5000..5523
\* and 7000..7009, coils 64064..64319
ClientRegs == {a \in HRAddrs : a \in 5000..5523 \/ a \in 7000..7009}
ClientCoils == {a \in CoilAddrs : a \in 64064..64319}

\* C25: no tick and no scan of the command poller changes a client-owned
\* address: holding registers 5000..5523 and 7000..7009 and coils
\* 64064..64319 are changed by client writes only.
C25_ClientAddressesUntouched ==
    [][ hist'.act \in {"tick", "poll"} =>
            /\ \A a \in ClientRegs : hr'[a] = hr[a]
            /\ \A a \in ClientCoils : co'[a] = co[a] ]_vars

\* C26: with no client write, HR 7000..7009 read the default thresholds
\* and HR 5200..5209 read 100 after any number of ticks and scans of the
\* command poller, firing windows and alarms included.
C26_ColdStartValuesPersist ==
    /\ \A k \in 0..9 : hr[7000 + k] = DefaultThresholds[k + 1]
    /\ \A i \in 0..9 : hr[5200 + i] = 100

\* the firing window signals a TX1 alarm after scans of the poller
C26_Witness ==
    /\ hist.act = "tick"
    /\ ~eq[0].auto_mode
    /\ alarm_cycle_number = 1
    /\ BitSet(hr[7100], 0)
    /\ Len(recent_alarms) = 2
    /\ hr[7000] = 300 /\ hr[5200] = 100

\* the 32-bit counter of the words lo, hi of block t
Counter32(t, lo, hi) == (t[hi] * 65536) + t[lo]

\* C22: for every actuator the kWh counter (words 9, 10) and the run-hours
\* counter (words 18, 19) never decrease from a tick to the next: a tick
\* adds exactly 1 to each if the actuator is running (pump running, fan
\* forward or backward) and leaves them unchanged if it is not; nothing
\* else changes them.
C22_CountersAdvanceIffRunning ==
    [][ \A i \in Equipment :
          LET d == IF hist'.act = "tick" /\ IsRunning(eq[i]) THEN 1 ELSE 0
          IN  /\ Counter32(tele'[i], 9, 10) = Counter32(tele[i], 9, 10) + d
              /\ Counter32(tele'[i], 18, 19) = Counter32(tele[i], 18, 19) + d
      ]_vars

\* a tick carried the counters of FAN1, running backward, into their high
\* words, and left those of the stopped SWP1 where they were
C22_Witness ==
    /\ hist.act = "tick"
    /\ eq[6].running_bwd /\ ~eq[6].running_fwd
    /\ tele[6][9] = 0 /\ tele[6][10] = 1
    /\ tele[6][18] = 0 /\ tele[6][19] = 1
    /\ ~eq[0].running /\ ~hist.eq[0].running
    /\ tele[0][9] = 65535 /\ tele[0][10] = 0

\* C27: for an actuator that is not running on a tick, every word of its
\* block written on that tick is 0 but heatsink (word 5) and system_temp
\* (word 8), which are 25.
C27_IdleBlockIsZero ==
    hist.act = "tick" =>
        \A i \in Equipment :
            ~IsRunning(hist.eq[i]) =>
                \A w \in 0..19 :
                    BlockWord(hr, tele, i, w) = (IF w \in {5, 8} THEN 25 ELSE 0)

\* C28: at every tick boundary, while the sensor alarm cycle is Firing the
\* selection holds exactly 2 distinct entries of the catalog, the same on
\* every tick of the firing window; while it is Idle the selection is
\* empty; the cycle number increases by exactly 1 per firing.
C28_SelectionStable ==
    /\ [](IF alarm_active
          THEN /\ current_alarm_sensors \subseteq AlarmNames
               /\ Cardinality(current_alarm_sensors) = 2
          ELSE current_alarm_sensors = {})
    /\ [][ /\ (alarm_active /\ alarm_active') =>
                 current_alarm_sensors' = current_alarm_sensors
           /\ alarm_cycle_number' =
                 alarm_cycle_number + (IF ~alarm_active /\ alarm_active' THEN 1 ELSE 0)
         ]_vars

\* a later tick of the second firing window
C28_Witness ==
    /\ alarm_active
    /\ alarm_duration = 5
    /\ alarm_cycle_number = 2
    /\ Cardinality(current_alarm_sensors) = 2
    /\ Len(obs.starts) = 2

\* C29: on the tick that takes the VFD anomaly cycle to Firing, if some
\* actuator is running (pump running, fan forward or backward), between 1
\* and min(2, number running) distinct running actuators are selected: the
\* cycle is not Firing with an empty selection.
C29_RunningAreCandidates ==
    [][ (hist'.act = "tick" /\ ~vfd_anomaly_active /\ vfd_anomaly_active') =>
          LET run == {i \in Equipment : IsRunning(eq[i])}
              sel == {x.vfd : x \in current_vfd_anomalies'}
          IN  run # {} =>
                /\ sel \subseteq run
                /\ Cardinality(sel) = Cardinality(current_vfd_anomalies')
                /\ Cardinality(sel) \in 1..Min(2, Cardinality(run))
      ]_vars

\* C30: the ring has at most 10 entries, in insertion order (newest last),
\* and HR 7200..7279 mirror it: for k below the ring size HR 7200+8k .. +7
\* are [code, kind, actual, threshold, tsHigh, tsLow, status, 0] of the
\* k-th oldest entry, and every block at or above the ring size is all 0.
C30_RingMirroredInRegisters ==
    /\ Len(recent_alarms) <= 10
    /\ \A k \in 1..(Len(recent_alarms) - 1) :
          recent_alarms[k].timestamp <= recent_alarms[k + 1].timestamp
    /\ \A k \in 0..9 :
          LET b == 7200 + (8 * k)
          IN  IF k < Len(recent_alarms)
              THEN LET x == recent_alarms[k + 1]
                   IN  /\ hr[b] = x.code
                       /\ hr[b + 1] = x.type
                       /\ hr[b + 2] = x.actual
                       /\ hr[b + 3] = x.threshold
                       /\ hr[b + 4] = x.timestamp \div 65536
                       /\ hr[b + 5] = x.timestamp % 65536
                       /\ hr[b + 6] = x.status
                       /\ hr[b + 7] = 0
              ELSE \A w \in 0..7 : hr[b + w] = 0

\* one tick filled the ring with the ten alarms, and a later tick kept it
C30_Witness ==
    /\ aobs.act = "tick"
    /\ aobs.len0 = 10
    /\ Len(recent_alarms) = 10
    /\ hr[7200] = 1 /\ hr[7272] = 11 /\ hr[7273] = 1
    /\ hr[7204] = 25939

-----------------------------------------------------------------------------
(* Frame conditions and precedence *)

\* C31: a tick leaves the commanded frequency of every actuator that is
\* not at once running, in auto mode and in VFD mode as it was, whatever
\* HR 5000+i holds, and never changes a run-state or mode field.
C31_SlewFrame ==
    [][ hist'.act = "tick" =>
          \A i \in Equipment :
              /\ ~(IsRunning(eq[i]) /\ eq[i].auto_mode /\ eq[i].vfd_mode)
                    => eq'[i].hz = eq[i].hz
              /\ eq'[i].running = eq[i].running
              /\ eq'[i].ess_on = eq[i].ess_on
              /\ eq'[i].running_fwd = eq[i].running_fwd
              /\ eq'[i].running_bwd = eq[i].running_bwd
              /\ eq'[i].abnormal = eq[i].abnormal
              /\ eq'[i].auto_mode = eq[i].auto_mode
              /\ eq'[i].vfd_mode = eq[i].vfd_mode
      ]_vars

\* a tick found SWP1 running in manual mode with a target of 47.0 Hz and
\* left it at its boot frequency
C31_Witness ==
    /\ hist.act = "tick"
    /\ eq[0].running /\ ~eq[0].auto_mode
    /\ hr[TargetReg(0)] = 470
    /\ eq[0].hz = BootHz(0)

\* C35: while HR 5000+i is 0 a tick does not change the commanded
\* frequency of actuator i, also when it is running in auto and VFD mode;
\* with no client write, every actuator keeps its boot frequency.
C35_ZeroTargetIsNoSetpoint ==
    /\ [][ hist'.act = "tick" =>
             \A i \in Equipment :
                 hr[TargetReg(i)] = 0 => eq'[i].hz = eq[i].hz ]_vars
    /\ [](writes = 0 => \A i \in Equipment : eq[i].hz = BootHz(i))

\* a tick slewed FAN1 towards its target of 47.0 Hz and left SWP1, running
\* in auto and VFD mode with a target register of 0, at its boot frequency
C35_Witness ==
    /\ hist.act = "tick"
    /\ eq[0].running /\ eq[0].auto_mode /\ eq[0].vfd_mode
    /\ hr[TargetReg(0)] = 0
    /\ eq[0].hz = BootHz(0)
    /\ hr[TargetReg(6)] = 470
    /\ eq[6].hz = BootHz(6) - 5

\* C32: no entry of the recent-alarm ring is ever removed: every step
\* keeps every entry at its index, the ring has at most 10 entries, and the
\* ring size and HR 7102 never decrease and are at most 10, whatever the
\* client writes to the threshold registers.
C32_RingNeverEvicts ==
    [][ /\ Len(recent_alarms') >= Len(recent_alarms)
        /\ Len(recent_alarms') <= 10
        /\ \A k \in 1..Len(recent_alarms) : recent_alarms'[k] = recent_alarms[k]
        /\ \A k \in 1..Len(recent_alarms') : recent_alarms'[k].status = 0
        /\ hr'[7102] >= hr[7102]
        /\ hr'[7102] <= 10
      ]_vars

\* the ring holds all ten keys, and a tick that signalled alarms again left
\* it at ten entries with the oldest entry still first
C32_Witness ==
    /\ aobs.act = "tick"
    /\ aobs.len0 = 10
    /\ hr[7100] # 0
    /\ hr[7102] = 10
    /\ recent_alarms[1].code = 1
    /\ recent_alarms[10].code = 11
    /\ recent_alarms[1].timestamp < Now(simulation_tick)

\* C34: a scan that reads the START and the STOP coil of a pump both set
\* leaves the pump not running, with ess_on false and a commanded frequency
\* of 0, whatever its state before, and both coils 0; a scan that reads
\* START, STOP and BWD of a fan all set leaves the fan running backward,
\* not forward, and the three coils 0.
C34_CommandPrecedence ==
    [][ hist'.act = "poll" =>
          /\ \A i \in Pumps :
                (co[StartCoil(i)] # 0 /\ co[StopCoil(i)] # 0) =>
                    /\ ~eq'[i].running
                    /\ ~eq'[i].ess_on
                    /\ eq'[i].hz = 0
                    /\ co'[StartCoil(i)] = 0
                    /\ co'[StopCoil(i)] = 0
          /\ \A i \in Fans :
                (co[StartCoil(i)] # 0 /\ co[StopCoil(i)] # 0 /\ co[BwdCoil(i)] # 0) =>
                    /\ ~eq'[i].running_fwd
                    /\ eq'[i].running_bwd
                    /\ co'[StartCoil(i)] = 0
                    /\ co'[StopCoil(i)] = 0
                    /\ co'[BwdCoil(i)] = 0
      ]_vars

\* a scan read every command coil set: SWP1, running before, and SWP3,
\* stopped before, are both stopped; FAN1, forward before, and FAN3,
\* stopped before, both run backward
C34_Witness ==
    /\ hist.act = "poll"
    /\ \A a \in 64064..64087 : hist.co[a] = 1
    /\ hist.eq[0].running /\ ~eq[0].running /\ eq[0].hz = 0
    /\ ~hist.eq[2].running /\ ~eq[2].running /\ ~eq[2].ess_on
    /\ hist.eq[6].running_fwd /\ ~eq[6].running_fwd /\ eq[6].running_bwd
    /\ ~hist.eq[8].running_fwd /\ ~hist.eq[8].running_bwd /\ eq[8].running_bwd
    /\ \A a \in 64064..64087 : co[a] = 0

\* C33: with the default thresholds and any run-state of the pumps, a tick
\* on which the sensor alarm cycle is not overriding, the tick that ends a
\* firing included, writes 0 to HR 7100 and HR 7101 and adds no entry to
\* the ring.
C33_NoSpuriousAlarms ==
    (aobs.act = "tick" /\ ~alarm_active) =>
        /\ hr[7100] = 0
        /\ hr[7101] = 0
        /\ Len(recent_alarms) = aobs.len0

\* the tick that ends a firing on PU1, with the three sea water pumps
\* running: TX2 follows the overridden load, PX1 is held at 3.5 bar, and
\* no alarm is signalled
C33_Witness ==
    /\ aobs.act = "tick"
    /\ ~alarm_active
    /\ alarm_cycle_number = 1
    /\ SwpRunningCount(eq) = 3
    /\ hr[11] >= 350
    /\ hr[17] = 16128
    /\ hr[7100] = 0 /\ hr[7101] = 0
    /\ \E k \in 1..Len(recent_alarms) : recent_alarms[k].code = 11
    /\ Len(recent_alarms) = aobs.len0

====
